---- MODULE Spec2Model ----
(***************************************************************************)
(* A model of the LSP client of talkcody: the LspService singleton         *)
(* (src/services/lsp/lsp-service.ts), its request correlation, session     *)
(* start/stop, document synchronisation, and the LspConnectionManager.     *)
(*                                                                         *)
(* JavaScript runs one macro task at a time and drains the microtask queue *)
(* after each: an await on a transport invoke is resumed by the action     *)
(* that models the invoke's return, and an await on a sendRequest promise  *)
(* is resumed by a Resume action that has priority over every macro task.  *)
(***************************************************************************)
EXTENDS Integers, Sequences, FiniteSets, TLC

\* ------------------------------------------------------------------ bounds
MaxCalls == 2
MaxId == 3
MaxServers == 2
MaxVersion == 3
TicksPerTimeout == 1

\* ------------------------------------------------------- program constants
REQUEST_TIMEOUT == 30000

Languages == {"typescript", "rust"}
RootPaths == {"/proj"}
FilePaths == {"/proj/a.ts", "/proj/b.ts"}
Results == {"r1", "r2"}
QueryOps == {"hover", "definition", "references"}

NoServer == 0
NoRequest == 0
NoHandle == 0
AbsentId == -1
NullId == 0
NoUri == <<"none", "none">>
NoMessage == [serverId |-> NoServer, method |-> "none", id |-> AbsentId,
              uri |-> NoUri, version |-> 0]

ServerIdSpace == 1..MaxServers
TickMs == REQUEST_TIMEOUT \div TicksPerTimeout

VARIABLES
  servers,          \* LspService.servers, in insertion order
  pendingRequests,  \* LspService.pendingRequests: id -> [method, timeout]
  messageId,        \* LspService.messageId
  unlistenFn,       \* LspService.unlistenFn: a subscription handle or NoHandle
  initialized,      \* LspService.initialized
  listeners,        \* active subscriptions to 'lsp-message' in the event layer
  handles,          \* number of subscriptions ever registered
  timers,           \* the armed setTimeout handles of sendRequest, by request id
  sends,            \* the ids whose invoke('lsp_send_message') has not returned
  promises,         \* the promises of sendRequest that a caller still awaits
  calls,            \* the calls in progress, with their position (pc)
  backendNext,      \* number of servers the external layer has started
  returnedIds,      \* the session ids startServer has returned to a caller
  sent,             \* the message handed to the transport by the last step
  done,             \* the call that completed in the last step
  connections,      \* LspConnectionManager.connections, in insertion order
  serversByRoot,    \* LspConnectionManager.serversByRoot
  docSent,          \* per session and document: what its notifications carried
  notificationCallbacks,  \* LspService.notificationCallbacks, in insertion order
  diagnosticsCallbacks,   \* LspService.diagnosticsCallbacks, in insertion order
  dispatched,       \* what handleMessage did with the event of the last step
  diagnosticsByFile,  \* useLspStore.diagnosticsByFile: file path -> stored list
  diagnosticsCounts,  \* useLspStore.diagnosticsCounts
  showErrors,       \* useLspStore.showErrors
  showWarnings,     \* useLspStore.showWarnings
  showInfo,         \* useLspStore.showInfo
  showHints         \* useLspStore.showHints

vars == <<servers, pendingRequests, messageId, unlistenFn, initialized, listeners,
          handles, timers, sends, promises, calls, backendNext, returnedIds,
          sent, done, connections, serversByRoot, docSent,
          notificationCallbacks, diagnosticsCallbacks, dispatched,
          diagnosticsByFile, diagnosticsCounts, showErrors, showWarnings,
          showInfo, showHints>>

service == <<servers, pendingRequests, messageId, unlistenFn, initialized,
             listeners, handles, timers, sends, promises, backendNext>>
registry == <<connections, serversByRoot, docSent>>
subscribers == <<notificationCallbacks, diagnosticsCallbacks>>
settings == <<showErrors, showWarnings, showInfo, showHints>>
store == <<diagnosticsByFile, diagnosticsCounts, settings>>

\* ------------------------------------------------------------ Map helpers
MapSet(m, k, v) == [x \in DOMAIN m \cup {k} |-> IF x = k THEN v ELSE m[x]]
MapDelete(m, k) == [x \in DOMAIN m \ {k} |-> m[x]]
Max(a, b) == IF a >= b THEN a ELSE b
EmptyMap == [x \in {} |-> 0]

ServerIds == {servers[i].serverId : i \in DOMAIN servers}
HasServer(sid) == sid \in ServerIds
GetServer(sid) == servers[CHOOSE i \in DOMAIN servers : servers[i].serverId = sid]

\* The version a session's map records for a document, 0 when it has none.
RecordedVersion(srv, serverId, uri) ==
  IF \E i \in DOMAIN srv : srv[i].serverId = serverId
                           /\ uri \in DOMAIN srv[i].documentVersions
  THEN LET i == CHOOSE i \in DOMAIN srv : srv[i].serverId = serverId
       IN srv[i].documentVersions[uri]
  ELSE 0

\* Map.set: a new key is appended, an existing key keeps its place.
ServersSet(srv, conn) ==
  IF \E i \in DOMAIN srv : srv[i].serverId = conn.serverId
  THEN [i \in DOMAIN srv |-> IF srv[i].serverId = conn.serverId THEN conn ELSE srv[i]]
  ELSE Append(srv, conn)

ServersDelete(srv, sid) ==
  LET Keep(c) == c.serverId # sid IN SelectSeq(srv, Keep)

\* The first entry, in Map order, with this language and rootPath (or 0).
FindServer(language, rootPath) ==
  LET hits == {i \in DOMAIN servers :
                 servers[i].language = language /\ servers[i].rootPath = rootPath}
  IN IF hits = {} THEN NoServer
     ELSE servers[CHOOSE i \in hits : \A j \in hits : i <= j].serverId

\* filePathToUri of lsp-protocol.ts: one URI per path.
FilePathToUri(path) == <<"file://", path>>

\* ------------------------------------------------------- results as values
\* A result is written <<"result", name>>; null is a value of its own, and
\* undefined (a response without a result member) is another.
Null == <<"null", "none">>
Undefined == <<"result", "undefined">>
JsValue(name) == IF name = "null" THEN Null ELSE <<"result", name>>

\* --------------------------------------------------------------- promises
Unsettled == [state |-> "pending", value |-> <<"none", "none">>]

\* resolve/reject of a promise: the first settlement wins, and a promise
\* whose caller has gone on is out of reach.
Settle(p, id, state, value) ==
  IF id \in DOMAIN p /\ p[id].state = "pending"
  THEN [p EXCEPT ![id] = [state |-> state, value |-> value]]
  ELSE p

\* clearTimeout: the timer, when still armed, never fires.
ClearTimeout(t, id) == MapDelete(t, id)

\* ------------------------------------------------------------------ calls
NoCall ==
  [op |-> "none", pc |-> "idle", language |-> "none", rootPath |-> "none",
   serverId |-> NoServer, filePath |-> "none", reqId |-> NoRequest,
   outcome |-> "none", result |-> <<"none", "none">>, returnedId |-> NoServer,
   prior |-> {}, diagnostics |-> <<>>, versionBefore |-> 0]

NewCall(op) == [NoCall EXCEPT !.op = op, !.pc = "start"]

CallSlots == 1..MaxCalls
Active(c) == calls[c].pc # "idle"
\* A new call takes the lowest free slot.
FreeSlot(c) == ~Active(c) /\ \A d \in CallSlots : d < c => Active(d)

AwaitRequestPcs == {"awaitInitialize", "awaitShutdown", "awaitQuery"}

Runnable(c) ==
  /\ calls[c].pc \in AwaitRequestPcs
  /\ promises[calls[c].reqId].state # "pending"

\* Continuations run in the order their promises were settled; several are
\* settled by one step only in cleanup, which walks pendingRequests by id.
NextRunnable(c) ==
  /\ Runnable(c)
  /\ \A d \in CallSlots : Runnable(d) => calls[c].reqId <= calls[d].reqId

\* A macro task (an event, a timer, an invoke's return, a caller's call)
\* starts only when the microtask queue is empty.
MacroReady == \A c \in CallSlots : ~Runnable(c)

Return(call, result) ==
  [call EXCEPT !.pc = "done", !.outcome = "returned", !.result = result]
Throw(call, error) ==
  [call EXCEPT !.pc = "done", !.outcome = "threw", !.result = error]

\* A step that hands nothing to the transport and completes no call.
Quiet == sent' = NoMessage /\ done' = NoCall

\* The call in slot c completes with this record: its caller goes on.
Finish(c, call) ==
  /\ calls' = [calls EXCEPT ![c] = NoCall]
  /\ done' = call
  /\ returnedIds' = IF call.op = "startServer" /\ call.outcome = "returned"
                    THEN returnedIds \cup {call.returnedId} ELSE returnedIds

\* The call in slot c reaches its next await, or completes.
Proceed(c, call) ==
  IF call.pc = "done"
  THEN Finish(c, call)
  ELSE /\ calls' = [calls EXCEPT ![c] = call]
       /\ done' = NoCall
       /\ UNCHANGED returnedIds

\* ------------------------------------------------------------ subscribers
\* The callbacks given to onNotification and to onDiagnostics; some of them
\* throw whenever they are called.
NotificationCallbacks == {"log", "badLog"}
DiagnosticsCallbacks == {"store", "badStore"}
CallbackThrows(callback) == callback \in {"badLog", "badStore"}

PUBLISH_DIAGNOSTICS == "textDocument/publishDiagnostics"

\* The params of a notification: missing, or {uri, diagnostics}.
Params == {"absent", "p1"}
ParamsUri(params) == IF params = "p1" THEN "file:///proj/a.ts" ELSE "undefined"
ParamsDiagnostics(params) == IF params = "p1" THEN "ds1" ELSE "undefined"

\* Set.add and Set.delete: a Set iterates in insertion order.
SetAdd(set, x) ==
  IF \E i \in DOMAIN set : set[i] = x THEN set ELSE Append(set, x)
SetDelete(set, x) ==
  LET Keep(y) == y # x IN SelectSeq(set, Keep)

\* What one run of handleMessage did: the branch taken, the pending request
\* completed, the calls made to subscribers in order, the number of errors
\* caught and logged, whether an exception left handleMessage, and the number
\* of subscriptions that ran handleMessage on the event; and of the event,
\* whether it was parsed to an object, whether that object had a non-null
\* id and a method name, and the session the event was tagged with.
NoDispatch ==
  [route |-> "none", id |-> NoRequest, delivered |-> <<>>, logged |-> 0,
   escaped |-> FALSE, runs |-> 0, parsed |-> FALSE, hasId |-> FALSE,
   hasMethod |-> FALSE, serverId |-> NoServer]
Dispatched(route, id, delivered, logged) ==
  [NoDispatch EXCEPT !.route = route, !.id = id, !.delivered = delivered,
                     !.logged = logged, !.runs = Cardinality(listeners)]
\* The record of a run on a parsed object.
OfParsed(parsed, record) ==
  [record EXCEPT !.parsed = TRUE, !.serverId = parsed.serverId,
                 !.hasId = parsed.id # AbsentId /\ parsed.id # NullId,
                 !.hasMethod = parsed.method # "absent"]

\* A step that is not an inbound event: no subscriber is called, and the
\* subscriber sets stay as they are.
NoDelivery == dispatched' = NoDispatch /\ UNCHANGED subscribers

\* ----------------------------------------------------- correlation engine
\* sendRequest: takes the next id, arms the timer, records the pending entry
\* and hands the request to the transport; the caller awaits promises[id].
SendRequest(serverId, method) ==
  LET id == messageId + 1 IN
  /\ messageId < MaxId
  /\ messageId' = id
  /\ timers' = MapSet(timers, id, [remaining |-> REQUEST_TIMEOUT, method |-> method])
  /\ pendingRequests' = MapSet(pendingRequests, id, [method |-> method, timeout |-> id])
  /\ sends' = sends \cup {id}
  /\ promises' = MapSet(promises, id, Unsettled)
  /\ sent' = [NoMessage EXCEPT !.serverId = serverId, !.method = method, !.id = id]

\* sendNotification up to its await: the notification is handed to the transport.
SendNotification(serverId, method, uri, version) ==
  sent' = [NoMessage EXCEPT !.serverId = serverId, !.method = method,
                            !.uri = uri, !.version = version]

\* A timeout callback that drops every pending entry and timer.
OnTimeout_ClearsAll(id) ==
  /\ timers' = EmptyMap
  /\ pendingRequests' = EmptyMap
  /\ promises' = Settle(promises, id, "rejected",
                        <<"LSP request timeout", timers[id].method>>)

\* A timeout callback that rejects the caller and leaves the pending entry.
OnTimeout_KeepsEntry(id) ==
  /\ timers' = MapDelete(timers, id)
  /\ pendingRequests' = pendingRequests
  /\ promises' = Settle(promises, id, "rejected",
                        <<"LSP request timeout", timers[id].method>>)

\* The setTimeout callback of sendRequest.
OnTimeout(id) ==
  /\ timers' = MapDelete(timers, id)
  /\ pendingRequests' = MapDelete(pendingRequests, id)
  /\ promises' = Settle(promises, id, "rejected",
                        <<"LSP request timeout", timers[id].method>>)

\* A catch callback that forgets to cancel the timer.
OnSendFailure_LeavesTimer(id) ==
  /\ pendingRequests' = MapDelete(pendingRequests, id)
  /\ timers' = timers
  /\ promises' = Settle(promises, id, "rejected", <<"transport error", "send">>)

\* A catch callback that rejects the caller whether or not the request is
\* still pending, and never removes the pending entry.
OnSendFailure_KeepsEntry(id) ==
  /\ pendingRequests' = pendingRequests
  /\ timers' = ClearTimeout(timers, id)
  /\ promises' = Settle(promises, id, "rejected", <<"transport error", "send">>)

\* A catch callback that drops the entry and its timer and tells nobody.
OnSendFailure_Swallows(id) ==
  /\ pendingRequests' = MapDelete(pendingRequests, id)
  /\ timers' = ClearTimeout(timers, id)
  /\ promises' = promises

\* The catch callback of invoke('lsp_send_message') in sendRequest.
OnSendFailure(id) ==
  /\ pendingRequests' = MapDelete(pendingRequests, id)
  /\ timers' = ClearTimeout(timers, id)
  /\ promises' = Settle(promises, id, "rejected", <<"transport error", "send">>)

\* A handleResponse that completes the oldest pending request, whatever id
\* the response carries.
HandleResponse_Oldest(response) ==
  IF response.id \notin DOMAIN pendingRequests
  THEN /\ UNCHANGED <<pendingRequests, timers, promises>>
       /\ dispatched' = OfParsed(response, Dispatched("response", NoRequest, <<>>, 0))
  ELSE LET oldest == CHOOSE id \in DOMAIN pendingRequests :
                       \A other \in DOMAIN pendingRequests : id <= other
       IN /\ dispatched' = OfParsed(response, Dispatched("response", oldest, <<>>, 0))
          /\ pendingRequests' = MapDelete(pendingRequests, oldest)
          /\ timers' = ClearTimeout(timers, oldest)
          /\ promises' = IF response.hasError
                         THEN Settle(promises, oldest, "rejected",
                                     <<"LSP error", response.errorMessage>>)
                         ELSE Settle(promises, oldest, "resolved",
                                     JsValue(response.result))

\* handleResponse.
HandleResponse(response) ==
  IF response.id \notin DOMAIN pendingRequests
  THEN /\ UNCHANGED <<pendingRequests, timers, promises>>
       /\ dispatched' = OfParsed(response, Dispatched("response", NoRequest, <<>>, 0))
  ELSE /\ dispatched' = OfParsed(response,
                                   Dispatched("response", response.id, <<>>, 0))
       /\ pendingRequests' = MapDelete(pendingRequests, response.id)
       /\ timers' = ClearTimeout(timers, response.id)
       /\ promises' = IF response.hasError
                      THEN Settle(promises, response.id, "rejected",
                                  <<"LSP error", response.errorMessage>>)
                      ELSE Settle(promises, response.id, "resolved",
                                  JsValue(response.result))

\* A handleServerNotification whose loops end at the first subscriber that
\* throws.
HandleServerNotification_StopsAtThrow(serverId, notification) ==
  LET n == notificationCallbacks
      d == diagnosticsCallbacks
      Before(set, i) == \A j \in 1..(i - 1) : ~CallbackThrows(set[j])
      calledN == SelectSeq([i \in DOMAIN n |-> IF Before(n, i) THEN n[i] ELSE "skipped"],
                           LAMBDA x : x # "skipped")
      calledD == IF notification.method = PUBLISH_DIAGNOSTICS
                    /\ notification.params # "absent"
                    /\ \A i \in DOMAIN n : ~CallbackThrows(n[i])
                 THEN SelectSeq([i \in DOMAIN d |->
                                   IF Before(d, i) THEN d[i] ELSE "skipped"],
                                LAMBDA x : x # "skipped")
                 ELSE <<>>
  IN /\ UNCHANGED <<pendingRequests, timers, promises>>
     /\ dispatched' = OfParsed(notification, Dispatched("notification", NoRequest,
          [i \in DOMAIN calledN |->
             [kind |-> "notification", to |-> calledN[i],
              first |-> notification.method, second |-> notification.params]]
          \o [i \in DOMAIN calledD |->
                [kind |-> "diagnostics", to |-> calledD[i],
                 first |-> ParamsUri(notification.params),
                 second |-> ParamsDiagnostics(notification.params)]], 1))

\* handleServerNotification: every notification subscriber is called with
\* (method, params), then, for publishDiagnostics, every diagnostics
\* subscriber with (params.uri, params.diagnostics). Each call sits in its own
\* try/catch: a throw is logged and the loop goes on. Reading .uri of missing
\* params throws inside that try, before the subscriber is called.
HandleServerNotification(serverId, notification) ==
  LET n == notificationCallbacks
      d == diagnosticsCallbacks
      isDiagnostics == notification.method = PUBLISH_DIAGNOSTICS
      noParams == notification.params = "absent"
      toAll == [i \in DOMAIN n |->
                  [kind |-> "notification", to |-> n[i],
                   first |-> notification.method, second |-> notification.params]]
      toDiagnostics ==
        IF isDiagnostics /\ ~noParams
        THEN [i \in DOMAIN d |->
                [kind |-> "diagnostics", to |-> d[i],
                 first |-> ParamsUri(notification.params),
                 second |-> ParamsDiagnostics(notification.params)]]
        ELSE <<>>
      caught ==
        Cardinality({i \in DOMAIN n : CallbackThrows(n[i])})
        + (IF ~isDiagnostics THEN 0
           ELSE IF noParams THEN Len(d)
           ELSE Cardinality({i \in DOMAIN d : CallbackThrows(d[i])}))
  IN /\ UNCHANGED <<pendingRequests, timers, promises>>
     /\ dispatched' = OfParsed(notification,
                          Dispatched("notification", NoRequest,
                                     toAll \o toDiagnostics, caught))

\* What the try block of handleMessage throws before it routes the message:
\* JSON.parse on unparsable text, the 'in' operator on a parsed primitive.
ParseError(event) ==
  IF event.form = "unparsable" THEN "SyntaxError"
  ELSE IF event.form = "primitive" THEN "TypeError"
  ELSE "none"

\* A catch clause that logs and throws the error on.
Catch_Rethrows ==
  [Dispatched("dropped", NoRequest, <<>>, 1) EXCEPT !.escaped = TRUE]

\* The catch clause of handleMessage: the error is logged.
Catch == Dispatched("dropped", NoRequest, <<>>, 1)

\* A handleMessage that looks for a method name before it looks for an id.
HandleMessage_MethodFirst(event) ==
  IF ParseError(event) # "none"
  THEN /\ UNCHANGED <<pendingRequests, timers, promises>>
       /\ dispatched' = Catch
  ELSE IF event.method # "absent"
       THEN HandleServerNotification(event.serverId, event)
       ELSE IF event.id # AbsentId /\ event.id # NullId
            THEN HandleResponse(event)
            ELSE /\ UNCHANGED <<pendingRequests, timers, promises>>
                 /\ dispatched' = OfParsed(event,
                                      Dispatched("ignored", NoRequest, <<>>, 0))

\* handleMessage.
HandleMessage(event) ==
  IF ParseError(event) # "none"
  THEN /\ UNCHANGED <<pendingRequests, timers, promises>>
       /\ dispatched' = Catch
  ELSE IF event.id # AbsentId /\ event.id # NullId
       THEN HandleResponse(event)
       ELSE IF event.method # "absent"
            THEN HandleServerNotification(event.serverId, event)
            ELSE /\ UNCHANGED <<pendingRequests, timers, promises>>
                 /\ dispatched' = OfParsed(event,
                                      Dispatched("ignored", NoRequest, <<>>, 0))

\* The payloads the event layer may emit: responses with a result or an
\* error, notifications and objects with neither id nor method, requests of
\* the server to the client, and text that is no JSON object.
InboundMessages ==
  [serverId : ServerIdSpace, form : {"object"}, id : 1..MaxId, method : {"absent"},
   params : {"absent"}, hasError : {FALSE}, errorMessage : {"none"},
   result : Results]
  \cup
  [serverId : ServerIdSpace, form : {"object"}, id : 1..MaxId, method : {"absent"},
   params : {"absent"}, hasError : {TRUE}, errorMessage : {"failed"},
   result : {"none"}]
  \cup
  [serverId : {1}, form : {"object"}, id : {AbsentId, NullId},
   method : {"absent", PUBLISH_DIAGNOSTICS, "window/logMessage"},
   params : Params, hasError : {FALSE}, errorMessage : {"none"},
   result : {"none"}]
  \cup
  [serverId : {1}, form : {"object"}, id : 1..MaxId,
   method : {"workspace/configuration"}, params : {"absent"}, hasError : {FALSE},
   errorMessage : {"none"}, result : {"undefined"}]
  \cup
  [serverId : {1}, form : {"unparsable", "primitive", "array"}, id : {AbsentId},
   method : {"absent"}, params : {"absent"}, hasError : {FALSE},
   errorMessage : {"none"}, result : {"none"}]

\* -------------------------------------------------- events (macro tasks)
\* An 'lsp-message' event: each active subscription runs handleMessage.
Message(event) ==
  /\ MacroReady
  /\ listeners # {}
  /\ HandleMessage(event)
  /\ Quiet
  /\ UNCHANGED <<servers, messageId, unlistenFn, initialized, listeners, handles,
                 sends, calls, backendNext, returnedIds, registry, subscribers,
                 store>>

\* A request's timer fires once its delay has passed.
TimeoutFires(id) ==
  /\ MacroReady
  /\ id \in DOMAIN timers
  /\ timers[id].remaining = 0
  /\ OnTimeout(id)
  /\ Quiet
  /\ UNCHANGED <<servers, messageId, unlistenFn, initialized, listeners, handles,
                 sends, calls, backendNext, returnedIds, registry>>
  /\ NoDelivery
  /\ UNCHANGED store

\* Time passes: every armed timer comes closer to its deadline.
Tick ==
  /\ MacroReady
  /\ \E id \in DOMAIN timers : timers[id].remaining > 0
  /\ timers' = [id \in DOMAIN timers |->
                  [timers[id] EXCEPT !.remaining = Max(0, @ - TickMs)]]
  /\ Quiet
  /\ UNCHANGED <<servers, pendingRequests, messageId, unlistenFn, initialized,
                 listeners, handles, sends, promises, calls, backendNext,
                 returnedIds, registry>>
  /\ NoDelivery
  /\ UNCHANGED store

\* invoke('lsp_send_message') of a request resolves.
RequestSendOk(id) ==
  /\ MacroReady
  /\ id \in sends
  /\ sends' = sends \ {id}
  /\ Quiet
  /\ UNCHANGED <<servers, pendingRequests, messageId, unlistenFn, initialized,
                 listeners, handles, timers, promises, calls, backendNext,
                 returnedIds, registry>>
  /\ NoDelivery
  /\ UNCHANGED store

\* invoke('lsp_send_message') of a request rejects.
RequestSendFails(id) ==
  /\ MacroReady
  /\ id \in sends
  /\ sends' = sends \ {id}
  /\ OnSendFailure(id)
  /\ Quiet
  /\ UNCHANGED <<servers, messageId, unlistenFn, initialized, listeners, handles,
                 calls, backendNext, returnedIds, registry>>
  /\ NoDelivery
  /\ UNCHANGED store


\* ------------------------------------------------------------ startServer
NewConnection(serverId, language, rootPath) ==
  [serverId |-> serverId, language |-> language, rootPath |-> rootPath,
   isInitialized |-> FALSE, documentVersions |-> EmptyMap]

\* The session ids earlier startServer calls returned for this pair that are
\* still in the registry.
PriorIds(language, rootPath) ==
  {id \in returnedIds \cap ServerIds :
     GetServer(id).language = language /\ GetServer(id).rootPath = rootPath}

\* startServer after `await this.init()`: the loop over this.servers returns
\* the first session of the pair, else lsp_check_server_available is invoked.
ReuseOrCheck(call) ==
  LET found == FindServer(call.language, call.rootPath) IN
  IF found # NoServer
  THEN [Return(call, <<"serverId", "reused">>) EXCEPT !.returnedId = found]
  ELSE [call EXCEPT !.pc = "checkAvailable"]

\* A caller calls startServer(language, rootPath). init() returns at once
\* when the service is initialized, else it awaits listen().
StartServerCall(language, rootPath) ==
  /\ MacroReady
  /\ \E c \in CallSlots :
       /\ FreeSlot(c)
       /\ LET call == [NewCall("startServer") EXCEPT
                         !.language = language, !.rootPath = rootPath,
                         !.prior = PriorIds(language, rootPath)]
          IN Proceed(c, IF initialized THEN ReuseOrCheck(call)
                        ELSE [call EXCEPT !.pc = "listen"])
  /\ sent' = NoMessage
  /\ UNCHANGED <<service, registry>>
  /\ NoDelivery
  /\ UNCHANGED store

\* listen() of init() resolves: the subscription is active, its handle is
\* stored, and startServer goes on.
ListenReturns(c) ==
  /\ MacroReady
  /\ calls[c].pc = "listen"
  /\ handles' = handles + 1
  /\ listeners' = listeners \cup {handles + 1}
  /\ unlistenFn' = handles + 1
  /\ initialized' = TRUE
  /\ Proceed(c, ReuseOrCheck(calls[c]))
  /\ sent' = NoMessage
  /\ UNCHANGED <<servers, pendingRequests, messageId, timers, sends, promises,
                 backendNext, registry>>
  /\ NoDelivery
  /\ UNCHANGED store

\* lsp_check_server_available resolves.
CheckAvailableReturns(c, isAvailable) ==
  /\ MacroReady
  /\ calls[c].pc = "checkAvailable"
  /\ calls' = [calls EXCEPT ![c].pc = IF isAvailable THEN "startInvoke" ELSE "getStatus"]
  /\ Quiet
  /\ UNCHANGED <<service, returnedIds, registry>>
  /\ NoDelivery
  /\ UNCHANGED store

\* A variant that installs a downloadable server and starts it.
NotInstalled_StartsDownloaded(call, canDownload) ==
  IF canDownload
  THEN [call EXCEPT !.pc = "startInvoke"]
  ELSE Throw(call, <<"not installed", "please install">>)

\* startServer once the status of an unavailable server is known: it throws
\* either way, and the message names what the caller can do.
NotInstalled(call, canDownload) ==
  Throw(call, <<"not installed",
                IF canDownload THEN "call downloadServer" ELSE "please install">>)

\* lsp_get_server_status resolves.
GetStatusReturns(c, canDownload) ==
  /\ MacroReady
  /\ calls[c].pc = "getStatus"
  /\ Proceed(c, NotInstalled(calls[c], canDownload))
  /\ sent' = NoMessage
  /\ UNCHANGED <<service, registry>>
  /\ NoDelivery
  /\ UNCHANGED store

\* lsp_get_server_status rejects: the rejection leaves startServer.
GetStatusFails(c) ==
  /\ MacroReady
  /\ calls[c].pc = "getStatus"
  /\ Finish(c, Throw(calls[c], <<"transport error", "invoke">>))
  /\ sent' = NoMessage
  /\ UNCHANGED <<service, registry>>
  /\ NoDelivery
  /\ UNCHANGED store

\* lsp_start_server reports failure.
StartInvokeFails(c) ==
  /\ MacroReady
  /\ calls[c].pc = "startInvoke"
  /\ Finish(c, Throw(calls[c], <<"start failed", "none">>))
  /\ sent' = NoMessage
  /\ UNCHANGED <<service, registry>>
  /\ NoDelivery
  /\ UNCHANGED store

\* lsp_start_server succeeds with a session id of the external layer: the
\* connection is registered and initializeServer sends the initialize request.
StartInvokeReturns(c) ==
  LET serverId == backendNext + 1 IN
  /\ MacroReady
  /\ calls[c].pc = "startInvoke"
  /\ backendNext < MaxServers
  /\ backendNext' = serverId
  /\ servers' = ServersSet(servers,
                  NewConnection(serverId, calls[c].language, calls[c].rootPath))
  /\ SendRequest(serverId, "initialize")
  /\ calls' = [calls EXCEPT ![c].pc = "awaitInitialize", ![c].serverId = serverId,
                            ![c].reqId = messageId + 1]
  /\ done' = NoCall
  /\ UNCHANGED <<unlistenFn, initialized, listeners, handles, returnedIds, registry>>
  /\ NoDelivery
  /\ UNCHANGED store

\* An initializeServer that goes on whatever became of the request.
InitializeError_Ignored(promise) == <<"none", "none">>

\* What initializeServer throws once the initialize request has completed:
\* the rejection of the request, or the TypeError of reading
\* result.capabilities of a null or absent result; else nothing.
InitializeError(promise) ==
  IF promise.state # "resolved" THEN promise.value
  ELSE IF promise.value \in {Null, Undefined}
       THEN <<"TypeError", "result.capabilities">>
       ELSE <<"none", "none">>

\* initializeServer after the initialize request completed.
ResumeInitialize(c) ==
  /\ NextRunnable(c)
  /\ calls[c].pc = "awaitInitialize"
  /\ promises' = MapDelete(promises, calls[c].reqId)
  /\ IF InitializeError(promises[calls[c].reqId]) = <<"none", "none">>
     THEN /\ SendNotification(calls[c].serverId, "initialized", NoUri, 0)
          /\ Proceed(c, [calls[c] EXCEPT !.pc = "sendInitialized"])
     ELSE /\ sent' = NoMessage
          /\ Finish(c, Throw(calls[c], InitializeError(promises[calls[c].reqId])))
  /\ UNCHANGED <<servers, pendingRequests, messageId, unlistenFn, initialized,
                 listeners, handles, timers, sends, backendNext, registry>>
  /\ NoDelivery
  /\ UNCHANGED store

\* conn.isInitialized = true, when the session is still registered.
MarkInitialized(srv, serverId) ==
  [i \in DOMAIN srv |-> IF srv[i].serverId = serverId
                        THEN [srv[i] EXCEPT !.isInitialized = TRUE] ELSE srv[i]]

\* The initialized notification was handed over: the session is marked and
\* startServer returns its id.
InitializedSendReturns(c) ==
  /\ MacroReady
  /\ calls[c].pc = "sendInitialized"
  /\ servers' = MarkInitialized(servers, calls[c].serverId)
  /\ Finish(c, [Return(calls[c], <<"serverId", "started">>) EXCEPT
                   !.returnedId = calls[c].serverId])
  /\ sent' = NoMessage
  /\ UNCHANGED <<pendingRequests, messageId, unlistenFn, initialized, listeners,
                 handles, timers, sends, promises, backendNext, registry>>
  /\ NoDelivery
  /\ UNCHANGED store

\* The transport rejects the initialized notification: startServer throws.
InitializedSendFails(c) ==
  /\ MacroReady
  /\ calls[c].pc = "sendInitialized"
  /\ Finish(c, Throw(calls[c], <<"transport error", "send">>))
  /\ sent' = NoMessage
  /\ UNCHANGED <<service, registry>>
  /\ NoDelivery
  /\ UNCHANGED store

\* ------------------------------------------- hover, definition, references
QueryMethod(op) ==
  CASE op = "hover" -> "textDocument/hover"
    [] op = "definition" -> "textDocument/definition"
    [] op = "references" -> "textDocument/references"

\* The results a definition request can have. A Location has uri and range,
\* a LocationLink has targetUri and targetSelectionRange; a member an object
\* does not have reads as "undefined".
Location(uri, range) ==
  [uri |-> uri, range |-> range, targetUri |-> "undefined",
   targetSelectionRange |-> "undefined"]
LocationLink(targetUri, targetSelectionRange) ==
  [uri |-> "undefined", range |-> "undefined", targetUri |-> targetUri,
   targetSelectionRange |-> targetSelectionRange]
LocationA == Location("file:///a.ts", "R")
LocationB == Location("file:///b.ts", "R2")
LinkB == LocationLink("file:///b.ts", "R2")

\* A non-null result: one object, or an array of objects.
Single(item) == [isArray |-> FALSE, items |-> <<item>>]
Array(items) == [isArray |-> TRUE, items |-> items]

\* The name a result value goes by in messages, promises and return values.
ResultNames ==
  {"r1", "r2", "[]", "[r1]", "[r2]", "[link]", "[r1,link]", "[link,r1]",
   "[r1,r2]", "[r2,r1]"}
ResultValue(name) ==
  CASE name = "r1" -> Single(LocationA)
    [] name = "r2" -> Single(LocationB)
    [] name = "[]" -> Array(<<>>)
    [] name = "[r1]" -> Array(<<LocationA>>)
    [] name = "[r2]" -> Array(<<LocationB>>)
    [] name = "[link]" -> Array(<<LinkB>>)
    [] name = "[r1,link]" -> Array(<<LocationA, LinkB>>)
    [] name = "[link,r1]" -> Array(<<LinkB, LocationA>>)
    [] name = "[r1,r2]" -> Array(<<LocationA, LocationB>>)
    [] name = "[r2,r1]" -> Array(<<LocationB, LocationA>>)
NameOf(value) == CHOOSE name \in ResultNames : ResultValue(name) = value

\* The results a server answers a definition request with: none at all,
\* null, one location, and arrays of locations and location links.
DefinitionResults ==
  {"undefined", "null", "r1", "[]", "[r1]", "[link]", "[r1,link]", "[link,r1]"}

\* 'targetUri' in item
IsLocationLink(item) == item.targetUri # "undefined"

\* The callback of result.map in definition().
NormalizeItem(item) ==
  IF IsLocationLink(item)
  THEN Location(item.targetUri, item.targetSelectionRange)
  ELSE item

\* definition() once its request is resolved: a falsy result gives null, an
\* array is mapped item by item, any other result is put in an array.
NormalizeDefinition(result) ==
  IF result \in {Null, Undefined} THEN Null
  ELSE LET value == ResultValue(result[2]) IN
       IF value.isArray
       THEN JsValue(NameOf(Array([i \in DOMAIN value.items |->
                                    NormalizeItem(value.items[i])])))
       ELSE JsValue(NameOf(Array(<<value.items[1]>>)))

\* A query whose catch clause throws the error on to its caller.
QueryFailed_Rethrows(call, error) == Throw(call, error)

\* The catch clause of hover, definition and references: null is returned.
QueryFailed(call, error) == Return(call, Null)

\* result && result.length > 0
HasElements(result) ==
  /\ result \notin {Null, Undefined}
  /\ ResultValue(result[2]).isArray
  /\ Len(ResultValue(result[2]).items) > 0

\* What a query returns for a resolved request: hover and references the
\* result as it is, definition the normalized one; getLspDefinition and
\* getLspReferences return what definition and references gave them when it
\* has elements, else null.
QueryResolved(call, result) ==
  LET inner == IF call.op \in {"definition", "getLspDefinition"}
               THEN NormalizeDefinition(result) ELSE result
  IN Return(call, IF call.op \in {"getLspDefinition", "getLspReferences"}
                     /\ ~HasElements(inner)
                  THEN Null ELSE inner)

\* hover / definition / references up to the await of sendRequest.
QueryCall(op, serverId) ==
  /\ MacroReady
  /\ \E c \in CallSlots :
       /\ FreeSlot(c)
       /\ calls' = [calls EXCEPT ![c] = [NewCall(op) EXCEPT !.pc = "awaitQuery",
                               !.serverId = serverId, !.reqId = messageId + 1]]
  /\ SendRequest(serverId, QueryMethod(op))
  /\ done' = NoCall
  /\ UNCHANGED <<servers, unlistenFn, initialized, listeners, handles, backendNext,
                 returnedIds, registry>>
  /\ NoDelivery
  /\ UNCHANGED store

\* The request completed: the result is returned, a failure becomes null.
ResumeQuery(c) ==
  /\ NextRunnable(c)
  /\ calls[c].pc = "awaitQuery"
  /\ promises' = MapDelete(promises, calls[c].reqId)
  /\ Finish(c, IF promises[calls[c].reqId].state = "resolved"
               THEN QueryResolved(calls[c], promises[calls[c].reqId].value)
               ELSE QueryFailed(calls[c], promises[calls[c].reqId].value))
  /\ sent' = NoMessage
  /\ UNCHANGED <<servers, pendingRequests, messageId, unlistenFn, initialized,
                 listeners, handles, timers, sends, backendNext, registry>>
  /\ NoDelivery
  /\ UNCHANGED store

\* ------------------------------------------------------ stopServer, cleanup
\* The key a live iterator over this.servers yields after `after`: session ids
\* enter the Map in increasing order.
NextKey(srv, after) ==
  LET later == {i \in DOMAIN srv : srv[i].serverId > after} IN
  IF later = {} THEN NoServer
  ELSE srv[CHOOSE i \in later : \A j \in later : i <= j].serverId

\* An end of cleanup() that also starts the request ids again.
CleanupTail_ResetsIds ==
  /\ listeners' = listeners \ {unlistenFn}
  /\ unlistenFn' = NoHandle
  /\ timers' = [id \in DOMAIN timers \ DOMAIN pendingRequests |-> timers[id]]
  /\ promises' = [id \in DOMAIN promises |->
        IF id \in DOMAIN pendingRequests /\ promises[id].state = "pending"
        THEN [state |-> "rejected", value |-> <<"LSP service shutting down", "none">>]
        ELSE promises[id]]
  /\ pendingRequests' = EmptyMap
  /\ initialized' = FALSE
  /\ messageId' = 0

\* The end of cleanup(): the subscription stored in unlistenFn is removed,
\* every pending request is rejected with its timer cleared, the pending set
\* is emptied and the service is marked uninitialized; messageId is kept.
CleanupTail ==
  /\ listeners' = listeners \ {unlistenFn}
  /\ unlistenFn' = NoHandle
  /\ timers' = [id \in DOMAIN timers \ DOMAIN pendingRequests |-> timers[id]]
  /\ promises' = [id \in DOMAIN promises |->
        IF id \in DOMAIN pendingRequests /\ promises[id].state = "pending"
        THEN [state |-> "rejected", value |-> <<"LSP service shutting down", "none">>]
        ELSE promises[id]]
  /\ pendingRequests' = EmptyMap
  /\ initialized' = FALSE
  /\ messageId' = messageId

\* stopServer(serverId) up to its first await: an unknown id returns at once,
\* else the shutdown request is sent.
StopServerCall(serverId) ==
  /\ MacroReady
  /\ \E c \in CallSlots :
       /\ FreeSlot(c)
       /\ LET call == [NewCall("stopServer") EXCEPT !.serverId = serverId] IN
          IF ~HasServer(serverId)
          THEN /\ Finish(c, Return(call, <<"void", "unknown">>))
               /\ sent' = NoMessage
               /\ UNCHANGED <<pendingRequests, messageId, timers, sends, promises>>
          ELSE /\ SendRequest(serverId, "shutdown")
               /\ Proceed(c, [call EXCEPT !.pc = "awaitShutdown",
                                          !.reqId = messageId + 1])
  /\ UNCHANGED <<servers, unlistenFn, initialized, listeners, handles, backendNext,
                 registry>>
  /\ NoDelivery
  /\ UNCHANGED store

\* cleanup() up to its first await: with no session the whole body runs,
\* else stopServer is called for the first key of this.servers.
CleanupCall ==
  /\ MacroReady
  /\ \E c \in CallSlots :
       /\ FreeSlot(c)
       /\ LET first == NextKey(servers, NoServer) IN
          IF first = NoServer
          THEN /\ CleanupTail
               /\ Finish(c, Return(NewCall("cleanup"), <<"void", "none">>))
               /\ sent' = NoMessage
               /\ UNCHANGED sends
          ELSE /\ SendRequest(first, "shutdown")
               /\ Proceed(c, [NewCall("cleanup") EXCEPT !.pc = "awaitShutdown",
                                !.serverId = first, !.reqId = messageId + 1])
               /\ UNCHANGED <<unlistenFn, initialized, listeners>>
  /\ UNCHANGED <<servers, handles, backendNext, registry>>
  /\ NoDelivery
  /\ UNCHANGED store

\* stopServer after the shutdown request completed: on success the exit
\* notification is sent; a failure is caught and lsp_stop_server is invoked.
ResumeShutdown(c) ==
  /\ NextRunnable(c)
  /\ calls[c].pc = "awaitShutdown"
  /\ promises' = MapDelete(promises, calls[c].reqId)
  /\ IF promises[calls[c].reqId].state = "resolved"
     THEN /\ SendNotification(calls[c].serverId, "exit", NoUri, 0)
          /\ Proceed(c, [calls[c] EXCEPT !.pc = "sendExit"])
     ELSE /\ sent' = NoMessage
          /\ Proceed(c, [calls[c] EXCEPT !.pc = "stopInvoke"])
  /\ UNCHANGED <<servers, pendingRequests, messageId, unlistenFn, initialized,
                 listeners, handles, timers, sends, backendNext, registry>>
  /\ NoDelivery
  /\ UNCHANGED store

\* The exit notification was handed over or was rejected (caught): either
\* way lsp_stop_server is invoked.
ExitSendSettles(c, ok) ==
  /\ MacroReady
  /\ calls[c].pc = "sendExit"
  /\ Proceed(c, [calls[c] EXCEPT !.pc = "stopInvoke"])
  /\ sent' = NoMessage
  /\ UNCHANGED <<service, registry>>
  /\ NoDelivery
  /\ UNCHANGED store

\* lsp_stop_server rejects: stopServer throws, and so does a cleanup() that
\* awaits it.
StopInvokeFails(c) ==
  /\ MacroReady
  /\ calls[c].pc = "stopInvoke"
  /\ Finish(c, Throw(calls[c], <<"stop failed", "none">>))
  /\ sent' = NoMessage
  /\ UNCHANGED <<service, registry>>
  /\ NoDelivery
  /\ UNCHANGED store

\* lsp_stop_server resolves: the session leaves the registry. stopServer
\* returns; cleanup() goes on with the next key, or with its end.
StopInvokeReturns(c) ==
  LET next == NextKey(ServersDelete(servers, calls[c].serverId), calls[c].serverId) IN
  /\ MacroReady
  /\ calls[c].pc = "stopInvoke"
  /\ servers' = ServersDelete(servers, calls[c].serverId)
  /\ IF calls[c].op = "stopServer"
     THEN /\ Finish(c, Return(calls[c], <<"void", "stopped">>))
          /\ sent' = NoMessage
          /\ UNCHANGED <<pendingRequests, messageId, unlistenFn, initialized,
                         listeners, timers, sends, promises>>
     ELSE IF next # NoServer
          THEN /\ SendRequest(next, "shutdown")
               /\ Proceed(c, [calls[c] EXCEPT !.pc = "awaitShutdown",
                                !.serverId = next, !.reqId = messageId + 1])
               /\ UNCHANGED <<unlistenFn, initialized, listeners>>
          ELSE /\ CleanupTail
               /\ Finish(c, Return(calls[c], <<"void", "none">>))
               /\ sent' = NoMessage
               /\ UNCHANGED sends
  /\ UNCHANGED <<handles, backendNext, registry>>
  /\ NoDelivery
  /\ UNCHANGED store

\* -------------------------------------------------- document synchronisation
\* A readiness test that accepts every registered session.
IsReady_AnyRegistered(serverId) == HasServer(serverId)

\* conn?.isInitialized
IsReady(serverId) == HasServer(serverId) /\ GetServer(serverId).isInitialized

\* conn.documentVersions.set(uri, version)
SetVersion(srv, serverId, uri, version) ==
  [i \in DOMAIN srv |-> IF srv[i].serverId = serverId
     THEN [srv[i] EXCEPT !.documentVersions = MapSet(@, uri, version)] ELSE srv[i]]

\* closeDocument that resets the version entry instead of deleting it.
DeleteVersion_Zero(srv, serverId, uri) == SetVersion(srv, serverId, uri, 0)

\* closeDocument that leaves the version entry of the document in place.
DeleteVersion_Keep(srv, serverId, uri) == srv

\* conn.documentVersions.delete(uri)
DeleteVersion(srv, serverId, uri) ==
  [i \in DOMAIN srv |-> IF srv[i].serverId = serverId
     THEN [srv[i] EXCEPT !.documentVersions = MapDelete(@, uri)] ELSE srv[i]]

\* conn.documentVersions.get(uri) || 0
CurrentVersion(serverId, uri) ==
  LET versions == GetServer(serverId).documentVersions IN
  IF uri \in DOMAIN versions THEN versions[uri] ELSE 0

\* changeDocument that sends the recorded version again.
NextVersion_Same(currentVersion) == currentVersion

\* const newVersion = currentVersion + 1
NextVersion(currentVersion) == currentVersion + 1

\* What the notifications of one document of one session have carried: the
\* highest version, the version of the last open or change since the last
\* close, whether the last open was followed by a close, and the number of
\* changes since the last open or close.
NoneSent == [max |-> 0, last |-> 0, phase |-> "none", changes |-> 0]
SentOf(key) == IF key \in DOMAIN docSent THEN docSent[key] ELSE NoneSent
NoteSent(message) ==
  LET key == <<message.serverId, message.uri>>
      old == SentOf(key)
  IN MapSet(docSent, key,
       CASE message.method = "textDocument/didOpen" ->
              [max |-> Max(old.max, message.version), last |-> message.version,
               phase |-> "open", changes |-> 0]
         [] message.method = "textDocument/didChange" ->
              [max |-> Max(old.max, message.version), last |-> message.version,
               phase |-> old.phase, changes |-> old.changes + 1]
         [] OTHER -> [max |-> old.max, last |-> 0, phase |-> "closed", changes |-> 0])

\* openDocument up to its await: a session that is not initialized throws,
\* else version 1 is recorded and the open notification is sent.
OpenDocument(c, serverId, filePath) ==
  LET uri == FilePathToUri(filePath)
      call == [NewCall("openDocument") EXCEPT !.serverId = serverId,
                                              !.filePath = filePath]
  IN IF ~IsReady(serverId)
     THEN /\ Finish(c, Throw(call, <<"Server not initialized", "none">>))
          /\ sent' = NoMessage
          /\ UNCHANGED <<servers, docSent>>
     ELSE /\ servers' = SetVersion(servers, serverId, uri, 1)
          /\ SendNotification(serverId, "textDocument/didOpen", uri, 1)
          /\ docSent' = NoteSent(sent')
          /\ Proceed(c, [call EXCEPT !.pc = "sendDocument",
                                     !.versionBefore = CurrentVersion(serverId, uri)])

\* changeDocument up to its await: the recorded version (0 when there is
\* none) plus one is recorded and sent with the change notification.
ChangeDocument(c, serverId, filePath) ==
  LET uri == FilePathToUri(filePath)
      call == [NewCall("changeDocument") EXCEPT !.serverId = serverId,
                                                !.filePath = filePath]
  IN IF ~IsReady(serverId)
     THEN /\ Finish(c, Throw(call, <<"Server not initialized", "none">>))
          /\ sent' = NoMessage
          /\ UNCHANGED <<servers, docSent>>
     ELSE LET newVersion == NextVersion(CurrentVersion(serverId, uri)) IN
          /\ newVersion <= MaxVersion
          /\ servers' = SetVersion(servers, serverId, uri, newVersion)
          /\ SendNotification(serverId, "textDocument/didChange", uri, newVersion)
          /\ docSent' = NoteSent(sent')
          /\ Proceed(c, [call EXCEPT !.pc = "sendDocument",
                                     !.versionBefore = CurrentVersion(serverId, uri)])

\* closeDocument up to its await: a session that is not initialized returns,
\* else the entry is deleted and the close notification is sent.
CloseDocument(c, serverId, filePath) ==
  LET uri == FilePathToUri(filePath)
      call == [NewCall("closeDocument") EXCEPT !.serverId = serverId,
                                               !.filePath = filePath]
  IN IF ~IsReady(serverId)
     THEN /\ Finish(c, Return(call, <<"void", "not initialized">>))
          /\ sent' = NoMessage
          /\ UNCHANGED <<servers, docSent>>
     ELSE /\ servers' = DeleteVersion(servers, serverId, uri)
          /\ SendNotification(serverId, "textDocument/didClose", uri, 0)
          /\ docSent' = NoteSent(sent')
          /\ Proceed(c, [call EXCEPT !.pc = "sendDocument"])

OpenDocumentCall(serverId, filePath) ==
  /\ MacroReady
  /\ \E c \in CallSlots : FreeSlot(c) /\ OpenDocument(c, serverId, filePath)
  /\ UNCHANGED <<pendingRequests, messageId, unlistenFn, initialized, listeners,
                 handles, timers, sends, promises, backendNext, connections,
                 serversByRoot>>
  /\ NoDelivery
  /\ UNCHANGED store

ChangeDocumentCall(serverId, filePath) ==
  /\ MacroReady
  /\ \E c \in CallSlots : FreeSlot(c) /\ ChangeDocument(c, serverId, filePath)
  /\ UNCHANGED <<pendingRequests, messageId, unlistenFn, initialized, listeners,
                 handles, timers, sends, promises, backendNext, connections,
                 serversByRoot>>
  /\ NoDelivery
  /\ UNCHANGED store

CloseDocumentCall(serverId, filePath) ==
  /\ MacroReady
  /\ \E c \in CallSlots : FreeSlot(c) /\ CloseDocument(c, serverId, filePath)
  /\ UNCHANGED <<pendingRequests, messageId, unlistenFn, initialized, listeners,
                 handles, timers, sends, promises, backendNext, connections,
                 serversByRoot>>
  /\ NoDelivery
  /\ UNCHANGED store

\* The document notification was handed over: the call returns.
DocumentSendReturns(c) ==
  /\ MacroReady
  /\ calls[c].pc = "sendDocument"
  /\ Finish(c, Return(calls[c], <<"void", "sent">>))
  /\ sent' = NoMessage
  /\ UNCHANGED <<service, registry>>
  /\ NoDelivery
  /\ UNCHANGED store

\* The transport rejects the document notification: none of the three
\* functions catches it, so the call throws.
DocumentSendFails(c) ==
  /\ MacroReady
  /\ calls[c].pc = "sendDocument"
  /\ Finish(c, Throw(calls[c], <<"transport error", "send">>))
  /\ sent' = NoMessage
  /\ UNCHANGED <<service, registry>>
  /\ NoDelivery
  /\ UNCHANGED store

\* ----------------------------------------------------- LspConnectionManager
\* A string as the pieces a ':' splits it into, with the ':' between them.
Pieces(string) ==
  IF string = "C:/proj" THEN <<"C", ":", "/proj">> ELSE <<string>>

\* The key of serversByRoot: `${rootPath}:${language}`.
RootKey(rootPath, language) == Pieces(rootPath) \o <<":">> \o Pieces(language)

\* connections is a Map from file path to {serverId, language, rootPath}:
\* a sequence of entries, each with its key, in insertion order.
NoConnection == [serverId |-> NoServer, language |-> "none", rootPath |-> "none"]
ConnectionOf(entry) ==
  [serverId |-> entry.serverId, language |-> entry.language,
   rootPath |-> entry.rootPath]
\* Map.has and Map.get on connections, Map.get on serversByRoot.
ConnectionsHas(conns, filePath) ==
  \E i \in DOMAIN conns : conns[i].filePath = filePath
ConnectionsGet(conns, filePath) ==
  IF ConnectionsHas(conns, filePath)
  THEN ConnectionOf(conns[CHOOSE i \in DOMAIN conns : conns[i].filePath = filePath])
  ELSE NoConnection
ByRootGet(byRoot, rootPath, language) ==
  IF RootKey(rootPath, language) \in DOMAIN byRoot
  THEN [serverId |-> byRoot[RootKey(rootPath, language)],
        language |-> language, rootPath |-> rootPath]
  ELSE NoConnection

\* hasConnection.
HasConnection(filePath) == ConnectionsHas(connections, filePath)

\* getConnection: the entry of the file, or null.
GetConnection(filePath) == ConnectionsGet(connections, filePath)

\* getConnectionByRoot: the session of the (rootPath, language) index with
\* the arguments it was asked with, or null.
GetConnectionByRoot(rootPath, language) ==
  ByRootGet(serversByRoot, rootPath, language)

\* Map.set and Map.delete on connections.
ConnectionsSet(conns, entry) ==
  IF \E i \in DOMAIN conns : conns[i].filePath = entry.filePath
  THEN [i \in DOMAIN conns |->
          IF conns[i].filePath = entry.filePath THEN entry ELSE conns[i]]
  ELSE Append(conns, entry)
ConnectionsDelete(conns, filePath) ==
  LET Keep(e) == e.filePath # filePath IN SelectSeq(conns, Keep)

\* A register that leaves the (rootPath, language) index alone.
Register_DirectOnly(filePath, serverId, language, rootPath) ==
  /\ connections' = ConnectionsSet(connections,
        [filePath |-> filePath, serverId |-> serverId, language |-> language,
         rootPath |-> rootPath])
  /\ UNCHANGED serversByRoot

Register(filePath, serverId, language, rootPath) ==
  /\ connections' = ConnectionsSet(connections,
        [filePath |-> filePath, serverId |-> serverId, language |-> language,
         rootPath |-> rootPath])
  /\ serversByRoot' = MapSet(serversByRoot, RootKey(rootPath, language), serverId)

\* An unregister that also drops the file's (rootPath, language) entry.
Unregister_DropsRoot(filePath) ==
  /\ connections' = ConnectionsDelete(connections, filePath)
  /\ serversByRoot' =
       IF HasConnection(filePath)
       THEN MapDelete(serversByRoot, RootKey(GetConnection(filePath).rootPath,
                                             GetConnection(filePath).language))
       ELSE serversByRoot

Unregister(filePath) ==
  /\ connections' = ConnectionsDelete(connections, filePath)
  /\ UNCHANGED serversByRoot

\* An unregisterServer that clears the direct entries only.
UnregisterServer_DirectOnly(serverId) ==
  /\ connections' = LET Keep(e) == e.serverId # serverId
                    IN SelectSeq(connections, Keep)
  /\ UNCHANGED serversByRoot

UnregisterServer(serverId) ==
  /\ connections' = LET Keep(e) == e.serverId # serverId
                    IN SelectSeq(connections, Keep)
  /\ serversByRoot' = [k \in {j \in DOMAIN serversByRoot :
                                serversByRoot[j] # serverId} |-> serversByRoot[k]]

\* useLsp: once startServer has returned an id to a mounted hook, the hook
\* registers its file with that id, language and rootPath.
HookRegisters(filePath) ==
  /\ done.op = "startServer"
  /\ done.outcome = "returned"
  /\ Register(filePath, done.returnedId, done.language, done.rootPath)
  /\ Quiet
  /\ UNCHANGED <<service, calls, returnedIds, docSent>>
  /\ NoDelivery
  /\ UNCHANGED store

\* useLsp: the effect's cleanup unregisters the hook's file.
HookUnregisters(filePath) ==
  /\ MacroReady
  /\ HasConnection(filePath)
  /\ Unregister(filePath)
  /\ Quiet
  /\ UNCHANGED <<service, calls, returnedIds, docSent>>
  /\ NoDelivery
  /\ UNCHANGED store

\* register, unregister and unregisterServer called with these arguments.
Void == <<"void", "none">>

RegisterCall(filePath, serverId, language, rootPath) ==
  /\ MacroReady
  /\ Register(filePath, serverId, language, rootPath)
  /\ done' = Return([NewCall("register") EXCEPT
                       !.filePath = filePath, !.serverId = serverId,
                       !.language = language, !.rootPath = rootPath], Void)
  /\ sent' = NoMessage
  /\ UNCHANGED <<service, calls, returnedIds, docSent>>
  /\ NoDelivery
  /\ UNCHANGED store

UnregisterCall(filePath) ==
  /\ MacroReady
  /\ Unregister(filePath)
  /\ done' = Return([NewCall("unregister") EXCEPT !.filePath = filePath], Void)
  /\ sent' = NoMessage
  /\ UNCHANGED <<service, calls, returnedIds, docSent>>
  /\ NoDelivery
  /\ UNCHANGED store

UnregisterServerCall(serverId) ==
  /\ MacroReady
  /\ UnregisterServer(serverId)
  /\ done' = Return([NewCall("unregisterServer") EXCEPT !.serverId = serverId], Void)
  /\ sent' = NoMessage
  /\ UNCHANGED <<service, calls, returnedIds, docSent>>
  /\ NoDelivery
  /\ UNCHANGED store

\* ------------------------------------------ getLspDefinition, getLspReferences
\* The files looked up, with the extension after their last '.' and the
\* project they lie in.
LookupFiles == {"/proj/a.ts", "/proj/b.ts", "/proj/m.rs", "/proj/notes.txt"}
ProjectRoots == {"/proj", "/other"}
Extension(filePath) ==
  CASE filePath \in {"/proj/a.ts", "/proj/b.ts", "/other/c.ts"} -> ".ts"
    [] filePath = "/proj/m.rs" -> ".rs"
    [] OTHER -> ".txt"
ProjectRoot(filePath) ==
  IF filePath = "/other/c.ts" THEN "/other" ELSE "/proj"

\* LSP_SERVERS: the extensions of each supported language.
LspServerExtensions(language) ==
  CASE language = "typescript" -> {".ts", ".tsx"}
    [] language = "rust" -> {".rs"}
    [] OTHER -> {}
\* getLanguageIdForPath: the language whose extensions include the file's
\* (no two languages share one), or null.
GetLanguageIdForPath(filePath) ==
  IF \E l \in Languages : Extension(filePath) \in LspServerExtensions(l)
  THEN CHOOSE l \in Languages : Extension(filePath) \in LspServerExtensions(l)
  ELSE "none"
HasLspSupport(language) == language \in Languages

\* The session getLspDefinition and getLspReferences use for a file: its
\* direct entry, else the first entry of connections, in Map order, that
\* has the file's language; null when the language is unknown or no entry
\* has it.
ResolveConnection(filePath) ==
  LET language == GetLanguageIdForPath(filePath)
      hits == {i \in DOMAIN connections : connections[i].language = language}
  IN IF HasConnection(filePath) THEN GetConnection(filePath)
     ELSE IF language = "none" \/ ~HasLspSupport(language) THEN NoConnection
     ELSE IF hits = {} THEN NoConnection
     ELSE ConnectionOf(connections[CHOOSE i \in hits : \A j \in hits : i <= j])

LookupOps == {"getLspDefinition", "getLspReferences"}
LookupQuery(op) == IF op = "getLspDefinition" THEN "definition" ELSE "references"

\* getLspDefinition / getLspReferences: without a session the call returns
\* null at once; else definition / references sends the request to the
\* session found and the call awaits it.
GetLspCall(op, filePath) ==
  LET conn == ResolveConnection(filePath)
      call == [NewCall(op) EXCEPT !.filePath = filePath] IN
  /\ MacroReady
  /\ \E c \in CallSlots :
       /\ FreeSlot(c)
       /\ IF conn = NoConnection
          THEN /\ Finish(c, Return(call, <<"null", "none">>))
               /\ sent' = NoMessage
               /\ UNCHANGED <<pendingRequests, messageId, timers, sends, promises>>
          ELSE /\ calls' = [calls EXCEPT ![c] =
                             [call EXCEPT !.pc = "awaitQuery",
                                          !.serverId = conn.serverId,
                                          !.reqId = messageId + 1]]
               /\ SendRequest(conn.serverId, QueryMethod(LookupQuery(op)))
               /\ done' = NoCall
               /\ UNCHANGED returnedIds
  /\ UNCHANGED <<servers, unlistenFn, initialized, listeners, handles, backendNext,
                 registry>>
  /\ NoDelivery
  /\ UNCHANGED store

\* ------------------------------------------- onNotification, onDiagnostics
\* onNotification(callback) and the unsubscribe function it returned.
OnNotification(callback) ==
  /\ MacroReady
  /\ notificationCallbacks' = SetAdd(notificationCallbacks, callback)
  /\ dispatched' = NoDispatch
  /\ Quiet
  /\ UNCHANGED <<service, calls, returnedIds, registry, diagnosticsCallbacks,
                 store>>

UnsubscribeNotification(callback) ==
  /\ MacroReady
  /\ \E i \in DOMAIN notificationCallbacks : notificationCallbacks[i] = callback
  /\ notificationCallbacks' = SetDelete(notificationCallbacks, callback)
  /\ dispatched' = NoDispatch
  /\ Quiet
  /\ UNCHANGED <<service, calls, returnedIds, registry, diagnosticsCallbacks,
                 store>>

\* onDiagnostics(callback) and the unsubscribe function it returned.
OnDiagnostics(callback) ==
  /\ MacroReady
  /\ diagnosticsCallbacks' = SetAdd(diagnosticsCallbacks, callback)
  /\ dispatched' = NoDispatch
  /\ Quiet
  /\ UNCHANGED <<service, calls, returnedIds, registry, notificationCallbacks,
                 store>>

UnsubscribeDiagnostics(callback) ==
  /\ MacroReady
  /\ \E i \in DOMAIN diagnosticsCallbacks : diagnosticsCallbacks[i] = callback
  /\ diagnosticsCallbacks' = SetDelete(diagnosticsCallbacks, callback)
  /\ dispatched' = NoDispatch
  /\ Quiet
  /\ UNCHANGED <<service, calls, returnedIds, registry, notificationCallbacks,
                 store>>

\* ------------------------------------------------------------ useLspStore
\* The severity of a raw diagnostic: absent (or 0), or a protocol number;
\* `d.severity || 1` makes an absent severity and 1 the same input.
NoSeverity == 0
Severities == {NoSeverity, 2, 3, 4}
RawDiagnostics == [severity : Severities, message : {"m"}]
DiagnosticLists ==
  {<<>>} \cup {<<a>> : a \in RawDiagnostics}
         \cup {<<a, b>> : a \in RawDiagnostics, b \in RawDiagnostics}

\* severityToString of lsp-protocol.ts.
SeverityToString(severity) ==
  CASE severity = 1 -> "error"
    [] severity = 2 -> "warning"
    [] severity = 3 -> "info"
    [] severity = 4 -> "hint"
    [] OTHER -> "info"

\* uriToFilePath of lsp-protocol.ts: the 'file://' prefix is stripped and
\* the percent-encoding decoded; another string is returned unchanged.
Uris == {"file:///proj/a.ts", "/proj/a.ts", "file:///proj/my%20b.ts"}
UriToFilePath(uri) ==
  CASE uri = "file:///proj/a.ts" -> "/proj/a.ts"
    [] uri = "file:///proj/my%20b.ts" -> "/proj/my b.ts"
    [] OTHER -> uri
StoreFiles == {UriToFilePath(uri) : uri \in Uris}

ZeroCounts == [errors |-> 0, warnings |-> 0, info |-> 0, hints |-> 0]

\* countDiagnostics.
CountDiagnostics(diagnostics) ==
  LET Of(severity) ==
        Cardinality({i \in DOMAIN diagnostics : diagnostics[i].severity = severity})
  IN [errors |-> Of("error"), warnings |-> Of("warning"), info |-> Of("info"),
      hints |-> Of("hint")]

\* A variant that adds the new counts and never takes the old ones off.
UpdateCounts_AddsOnly(current, oldFileCounts, newFileCounts) ==
  [errors |-> current.errors + newFileCounts.errors,
   warnings |-> current.warnings + newFileCounts.warnings,
   info |-> current.info + newFileCounts.info,
   hints |-> current.hints + newFileCounts.hints]

\* updateCounts.
UpdateCounts(current, oldFileCounts, newFileCounts) ==
  [errors |-> current.errors - oldFileCounts.errors + newFileCounts.errors,
   warnings |-> current.warnings - oldFileCounts.warnings + newFileCounts.warnings,
   info |-> current.info - oldFileCounts.info + newFileCounts.info,
   hints |-> current.hints - oldFileCounts.hints + newFileCounts.hints]

\* The diagnostics.map of setDiagnostics: the internal shape, the id made of
\* the file path and the index in the raw list, an absent severity taken as 1.
ConvertDiagnostics(filePath, diagnostics) ==
  [i \in DOMAIN diagnostics |->
     [id |-> [filePath |-> filePath, index |-> i - 1],
      severity |-> SeverityToString(IF diagnostics[i].severity = NoSeverity
                                    THEN 1 ELSE diagnostics[i].severity),
      message |-> diagnostics[i].message]]

\* The filter of setDiagnostics, under the settings of the moment.
IsShown(d) ==
  CASE d.severity = "error" -> showErrors
    [] d.severity = "warning" -> showWarnings
    [] d.severity = "info" -> showInfo
    [] d.severity = "hint" -> showHints
    [] OTHER -> TRUE
FilterDiagnostics(lspDiagnostics) == SelectSeq(lspDiagnostics, IsShown)

\* getDiagnostics: the stored list of the file, or an empty one.
StoredDiagnostics(byFile, filePath) ==
  IF filePath \in DOMAIN byFile THEN byFile[filePath] ELSE <<>>
GetDiagnostics(filePath) == StoredDiagnostics(diagnosticsByFile, filePath)

\* A variant that appends the new list to the file's stored one.
StoreList_Merges(byFile, filePath, filteredDiagnostics) ==
  MapSet(byFile, filePath, StoredDiagnostics(byFile, filePath) \o filteredDiagnostics)

\* diagnosticsByFile.set(filePath, filteredDiagnostics) on a copy of the map.
StoreList(byFile, filePath, filteredDiagnostics) ==
  MapSet(byFile, filePath, filteredDiagnostics)

\* setDiagnostics.
SetDiagnostics(uri, diagnostics) ==
  LET filePath == UriToFilePath(uri)
      filteredDiagnostics == FilterDiagnostics(ConvertDiagnostics(filePath, diagnostics))
      oldDiagnostics == StoredDiagnostics(diagnosticsByFile, filePath)
  IN /\ diagnosticsByFile' = StoreList(diagnosticsByFile, filePath, filteredDiagnostics)
     /\ diagnosticsCounts' = UpdateCounts(diagnosticsCounts,
                                          CountDiagnostics(oldDiagnostics),
                                          CountDiagnostics(filteredDiagnostics))

\* A variant that removes the entry and leaves the aggregate as it is.
ClearDiagnostics_KeepsCounts(uri) ==
  /\ diagnosticsByFile' = MapDelete(diagnosticsByFile, UriToFilePath(uri))
  /\ UNCHANGED diagnosticsCounts

\* clearDiagnostics: nothing to clear without an entry; an entry holding an
\* empty list is an entry.
ClearDiagnostics(uri) ==
  LET filePath == UriToFilePath(uri) IN
  IF filePath \notin DOMAIN diagnosticsByFile
  THEN UNCHANGED <<diagnosticsByFile, diagnosticsCounts>>
  ELSE /\ diagnosticsByFile' = MapDelete(diagnosticsByFile, filePath)
       /\ diagnosticsCounts' = UpdateCounts(diagnosticsCounts,
                                  CountDiagnostics(diagnosticsByFile[filePath]),
                                  ZeroCounts)

\* clearAllDiagnostics.
ClearAllDiagnostics ==
  /\ diagnosticsByFile' = EmptyMap
  /\ diagnosticsCounts' = ZeroCounts

\* The store's operations called: each runs to its end in one step.
StoreFrame ==
  /\ sent' = NoMessage
  /\ dispatched' = NoDispatch
  /\ UNCHANGED <<service, calls, returnedIds, registry, subscribers>>

SetDiagnosticsCall(uri, diagnostics) ==
  /\ SetDiagnostics(uri, diagnostics)
  /\ done' = Return([NewCall("setDiagnostics") EXCEPT
                       !.filePath = uri, !.diagnostics = diagnostics], Void)
  /\ StoreFrame
  /\ UNCHANGED settings

ClearDiagnosticsCall(uri) ==
  /\ ClearDiagnostics(uri)
  /\ done' = Return([NewCall("clearDiagnostics") EXCEPT !.filePath = uri], Void)
  /\ StoreFrame
  /\ UNCHANGED settings

ClearAllDiagnosticsCall ==
  /\ ClearAllDiagnostics
  /\ done' = Return(NewCall("clearAllDiagnostics"), Void)
  /\ StoreFrame
  /\ UNCHANGED settings

\* setShowErrors, setShowWarnings, setShowInfo, setShowHints.
SetShowErrors(show) ==
  /\ showErrors' = show
  /\ done' = NoCall
  /\ StoreFrame
  /\ UNCHANGED <<diagnosticsByFile, diagnosticsCounts, showWarnings, showInfo, showHints>>
SetShowWarnings(show) ==
  /\ showWarnings' = show
  /\ done' = NoCall
  /\ StoreFrame
  /\ UNCHANGED <<diagnosticsByFile, diagnosticsCounts, showErrors, showInfo, showHints>>
SetShowInfo(show) ==
  /\ showInfo' = show
  /\ done' = NoCall
  /\ StoreFrame
  /\ UNCHANGED <<diagnosticsByFile, diagnosticsCounts, showErrors, showWarnings, showHints>>
SetShowHints(show) ==
  /\ showHints' = show
  /\ done' = NoCall
  /\ StoreFrame
  /\ UNCHANGED <<diagnosticsByFile, diagnosticsCounts, showErrors, showWarnings, showInfo>>

\* ---------------------------------------------------------- specifications
Init ==
  /\ servers = <<>>
  /\ pendingRequests = EmptyMap
  /\ messageId = 0
  /\ unlistenFn = NoHandle
  /\ initialized = FALSE
  /\ listeners = {}
  /\ handles = 0
  /\ timers = EmptyMap
  /\ sends = {}
  /\ promises = EmptyMap
  /\ calls = [c \in CallSlots |-> NoCall]
  /\ backendNext = 0
  /\ returnedIds = {}
  /\ sent = NoMessage
  /\ done = NoCall
  /\ connections = <<>>
  /\ serversByRoot = EmptyMap
  /\ docSent = EmptyMap
  /\ notificationCallbacks = <<>>
  /\ diagnosticsCallbacks = <<>>
  /\ dispatched = NoDispatch
  /\ diagnosticsByFile = EmptyMap
  /\ diagnosticsCounts = ZeroCounts
  /\ showErrors = TRUE
  /\ showWarnings = TRUE
  /\ showInfo = TRUE
  /\ showHints = FALSE

\* startServer with every outcome of the external layer, for every pair.
StartSteps ==
  \/ \E l \in Languages, r \in RootPaths : StartServerCall(l, r)
  \/ \E c \in CallSlots : ListenReturns(c)
  \/ \E c \in CallSlots, a \in BOOLEAN : CheckAvailableReturns(c, a)
  \/ \E c \in CallSlots, d \in BOOLEAN : GetStatusReturns(c, d)
  \/ \E c \in CallSlots : GetStatusFails(c)
  \/ \E c \in CallSlots : StartInvokeFails(c)
  \/ \E c \in CallSlots : StartInvokeReturns(c)
  \/ \E c \in CallSlots : ResumeInitialize(c)
  \/ \E c \in CallSlots : InitializedSendReturns(c)
  \/ \E c \in CallSlots : InitializedSendFails(c)

\* One caller starts one session, as a hook does for its file, and starts
\* it again once cleanup() has emptied the registry.
StartOnce ==
  /\ servers = <<>>
  /\ \A c \in CallSlots : ~Active(c)
  /\ StartServerCall("typescript", "/proj")

OneStartSteps ==
  \/ StartOnce
  \/ \E c \in CallSlots : ListenReturns(c)
  \/ \E c \in CallSlots : CheckAvailableReturns(c, TRUE)
  \/ \E c \in CallSlots : StartInvokeReturns(c)
  \/ \E c \in CallSlots : ResumeInitialize(c)
  \/ \E c \in CallSlots : InitializedSendReturns(c)

\* Every payload of the event layer, and the timers.
TimedSteps ==
  \/ \E m \in InboundMessages : Message(m)
  \/ \E id \in 1..MaxId : TimeoutFires(id)
  \/ Tick

\* The responses alone, tagged with the first session (handleMessage changes
\* the service's state for no other payload), the timers and the transport's
\* answers to the requests handed to it.
Responses ==
  {m \in InboundMessages :
     m.form = "object" /\ m.id >= 1 /\ m.method = "absent" /\ m.serverId = 1}
ResponseSteps ==
  \/ \E m \in Responses : Message(m)
  \/ \E id \in 1..MaxId : TimeoutFires(id)
  \/ \E id \in 1..MaxId : RequestSendOk(id)
  \/ \E id \in 1..MaxId : RequestSendFails(id)
  \/ Tick

\* Queries on the registered sessions.
ReqQuerySteps ==
  \/ \E op \in {"hover", "definition"}, s \in ServerIds : QueryCall(op, s)
  \/ \E c \in CallSlots : ResumeQuery(c)

LifeQuerySteps ==
  \/ \E s \in ServerIds : QueryCall("hover", s)
  \/ \E c \in CallSlots : ResumeQuery(c)

StopSteps ==
  \/ \E s \in ServerIdSpace : StopServerCall(s)
  \/ \E c \in CallSlots : ResumeShutdown(c)
  \/ \E c \in CallSlots, ok \in BOOLEAN : ExitSendSettles(c, ok)
  \/ \E c \in CallSlots : StopInvokeFails(c)
  \/ \E c \in CallSlots : StopInvokeReturns(c)

CleanupSteps ==
  \/ CleanupCall
  \/ \E c \in CallSlots : ResumeShutdown(c)
  \/ \E c \in CallSlots, ok \in BOOLEAN : ExitSendSettles(c, ok)
  \/ \E c \in CallSlots : StopInvokeFails(c)
  \/ \E c \in CallSlots : StopInvokeReturns(c)

\* One document of the session is opened, changed and closed, by calls that
\* overlap, on registered and on unknown sessions.
Documents == {"/proj/a.ts"}
DocumentSteps ==
  \/ \E s \in ServerIdSpace, f \in Documents : OpenDocumentCall(s, f)
  \/ \E s \in ServerIdSpace, f \in Documents : ChangeDocumentCall(s, f)
  \/ \E s \in ServerIdSpace, f \in Documents : CloseDocumentCall(s, f)
  \/ \E c \in CallSlots : DocumentSendReturns(c)
  \/ \E c \in CallSlots : DocumentSendFails(c)

HookSteps == \E f \in FilePaths : HookRegisters(f)

\* Requests in flight on a session, answered in any order, late, or never.
NextReq == OneStartSteps \/ TimedSteps \/ ReqQuerySteps
SpecReq == Init /\ [][NextReq]_vars

\* The service's life: a session starts, requests are sent, answered, time
\* out or fail to be sent, cleanup() ends it and a later startServer
\* initializes it again.
NextLife == OneStartSteps \/ ResponseSteps \/ LifeQuerySteps \/ CleanupSteps
SpecLife == Init /\ [][NextLife]_vars

\* Document synchronisation on a session.
NextDoc == OneStartSteps \/ ResponseSteps \/ DocumentSteps
SpecDoc == Init /\ [][NextDoc]_vars

\* A hook registers its file with the session it started; sessions stop.
NextConn == OneStartSteps \/ ResponseSteps \/ StopSteps \/ HookSteps
SpecConn == Init /\ [][NextConn]_vars

\* A session is stopped, by calls that overlap, while queries are in flight.
NextStop == OneStartSteps \/ ResponseSteps \/ StopSteps \/ LifeQuerySteps
SpecStop == Init /\ [][NextStop]_vars

\* Requests time out on a session that has a document open.
OpenSteps ==
  \/ \E s \in ServerIds, f \in Documents : OpenDocumentCall(s, f)
  \/ \E c \in CallSlots : DocumentSendReturns(c)
NextFrame == OneStartSteps \/ TimedSteps \/ LifeQuerySteps \/ OpenSteps
SpecFrame == Init /\ [][NextFrame]_vars

\* A second language is asked for while the first session runs, and the
\* external layer has no server for it.
StartAnother ==
  /\ servers # <<>>
  /\ StartServerCall("rust", "/proj")
UnavailableSteps ==
  \/ StartAnother
  \/ \E c \in CallSlots : CheckAvailableReturns(c, FALSE)
  \/ \E c \in CallSlots, d \in BOOLEAN : GetStatusReturns(c, d)
  \/ \E c \in CallSlots : GetStatusFails(c)
NextAvail == OneStartSteps \/ UnavailableSteps \/ ResponseSteps
SpecAvail == Init /\ [][NextAvail]_vars

\* Subscribers come and go while requests are in flight and the event layer
\* emits every payload.
SubscribeSteps ==
  \/ \E cb \in NotificationCallbacks : OnNotification(cb)
  \/ \E cb \in NotificationCallbacks : UnsubscribeNotification(cb)
  \/ \E cb \in DiagnosticsCallbacks : OnDiagnostics(cb)
  \/ \E cb \in DiagnosticsCallbacks : UnsubscribeDiagnostics(cb)
InboundSteps == \E m \in InboundMessages : Message(m)
NextMsg == OneStartSteps \/ InboundSteps \/ LifeQuerySteps \/ SubscribeSteps
SpecMsg == Init /\ [][NextMsg]_vars

\* Hooks register their files with the session of the file's language and
\* project and unregister them, sessions are unregistered, and definitions
\* and references are looked up for files with and without an entry.
HookFiles == {"/proj/a.ts", "/other/c.ts"}
HookRegistrySteps ==
  \/ \E f \in HookFiles, s \in ServerIdSpace :
       RegisterCall(f, s, GetLanguageIdForPath(f), ProjectRoot(f))
  \/ \E f \in HookFiles : UnregisterCall(f)
  \/ \E s \in ServerIdSpace : UnregisterServerCall(s)
LookupSteps ==
  \/ \E op \in LookupOps, f \in LookupFiles : GetLspCall(op, f)
  \/ \E c \in CallSlots : ResumeQuery(c)
SendSteps ==
  \/ \E id \in 1..MaxId : RequestSendOk(id)
  \/ \E id \in 1..MaxId : RequestSendFails(id)

\* The registry alone: any file is registered with any session, language
\* and root, files and sessions are unregistered.
RegistryRoots == {"/proj", "C:/proj"}
RegistrySteps ==
  \/ \E f \in FilePaths, s \in ServerIdSpace, l \in Languages, r \in RegistryRoots :
       RegisterCall(f, s, l, r)
  \/ \E f \in FilePaths : UnregisterCall(f)
  \/ \E s \in ServerIdSpace : UnregisterServerCall(s)
NextRegistry == RegistrySteps
SpecRegistry == Init /\ [][NextRegistry]_vars

NextLookup == HookRegistrySteps \/ LookupSteps \/ SendSteps
SpecLookup == Init /\ [][NextLookup]_vars

\* The diagnostics store: lists are pushed for files, cleared one by one
\* and all at once, while the visibility settings change.
StoreSteps ==
  \/ \E uri \in Uris, ds \in DiagnosticLists : SetDiagnosticsCall(uri, ds)
  \/ \E uri \in Uris : ClearDiagnosticsCall(uri)
  \/ ClearAllDiagnosticsCall
  \/ \E show \in BOOLEAN : SetShowErrors(show)
  \/ \E show \in BOOLEAN : SetShowWarnings(show)
  \/ \E show \in BOOLEAN : SetShowInfo(show)
  \/ \E show \in BOOLEAN : SetShowHints(show)
NextStore == StoreSteps
SpecStore == Init /\ [][NextStore]_vars

\* Hover, definition and references on a session: definition requests are
\* answered with every shape of result, requests are answered with an error,
\* time out, or fail to be sent.
DefinitionResponses ==
  [serverId : {1}, form : {"object"}, id : 1..MaxId, method : {"absent"},
   params : {"absent"}, hasError : {FALSE}, errorMessage : {"none"},
   result : DefinitionResults]
  \cup
  [serverId : {1}, form : {"object"}, id : 1..MaxId, method : {"absent"},
   params : {"absent"}, hasError : {TRUE}, errorMessage : {"failed"},
   result : {"none"}]
QuerySteps ==
  \/ \E op \in QueryOps, s \in ServerIds : QueryCall(op, s)
  \/ \E c \in CallSlots : ResumeQuery(c)
AnswerSteps ==
  \/ \E m \in DefinitionResponses : Message(m)
  \/ \E id \in 1..MaxId : TimeoutFires(id)
  \/ \E id \in 1..MaxId : RequestSendOk(id)
  \/ \E id \in 1..MaxId : RequestSendFails(id)
  \/ Tick
NextQuery == OneStartSteps \/ QuerySteps \/ AnswerSteps
SpecQuery == Init /\ [][NextQuery]_vars

\* The three queries on a session while its requests are answered with a
\* result or an error, time out or cannot be sent.
FailSteps ==
  \/ \E m \in {r \in Responses : r.result # "r2"} : Message(m)
  \/ \E id \in 1..MaxId : TimeoutFires(id)
  \/ \E id \in 1..MaxId : RequestSendOk(id)
  \/ \E id \in 1..MaxId : RequestSendFails(id)
  \/ Tick
NextFail == OneStartSteps \/ QuerySteps \/ FailSteps
SpecFail == Init /\ [][NextFail]_vars

\* The handshake of a session with every outcome: the initialize request is
\* answered with a result, without one, or with an error, times out or
\* cannot be sent, the initialized notification is handed over or refused,
\* and the session is stopped meanwhile.
HandshakeAnswers ==
  [serverId : {1}, form : {"object"}, id : 1..MaxId, method : {"absent"},
   params : {"absent"}, hasError : {FALSE}, errorMessage : {"none"},
   result : {"r1", "null"}]
  \cup
  [serverId : {1}, form : {"object"}, id : 1..MaxId, method : {"absent"},
   params : {"absent"}, hasError : {TRUE}, errorMessage : {"failed"},
   result : {"none"}]
HandshakeSteps ==
  \/ \E c \in CallSlots : InitializedSendFails(c)
  \/ \E m \in HandshakeAnswers : Message(m)
  \/ \E id \in 1..MaxId : TimeoutFires(id)
  \/ \E id \in 1..MaxId : RequestSendOk(id)
  \/ \E id \in 1..MaxId : RequestSendFails(id)
  \/ Tick
NextInit == OneStartSteps \/ HandshakeSteps \/ StopSteps
SpecInit == Init /\ [][NextInit]_vars

\* Two sessions, one per language, with requests in flight on both, and
\* responses tagged with either session.
TaggedResponses ==
  {m \in InboundMessages : m.form = "object" /\ m.id >= 1 /\ m.method = "absent"}
TwoSessionSteps ==
  \/ StartAnother
  \/ \E m \in TaggedResponses : Message(m)
NextTwo == OneStartSteps \/ TwoSessionSteps \/ LifeQuerySteps
SpecTwo == Init /\ [][NextTwo]_vars

\* Sessions start, overlap and fail, for both languages.
NextStart == StartSteps \/ ResponseSteps
SpecStart == Init /\ [][NextStart]_vars

\* ------------------------------------------------------------------ claims
IssuedIds == 1..messageId
AwaitedPending(id) == id \in DOMAIN promises /\ promises[id].state = "pending"

\* C2: a request is in the pending set exactly while its caller's promise is
\* unsettled, and its timer is armed only while it is pending; an id that has
\* left the pending set never comes back, and a settled promise is never
\* settled again, whichever of response, timeout, send failure and cleanup()
\* comes later.
C2_Inv ==
  /\ DOMAIN pendingRequests \subseteq IssuedIds
  /\ \A id \in IssuedIds : id \in DOMAIN pendingRequests <=> AwaitedPending(id)
  /\ DOMAIN timers \subseteq DOMAIN pendingRequests
C2_Step ==
  /\ \A id \in IssuedIds :
       id \notin DOMAIN pendingRequests => id \notin DOMAIN pendingRequests'
  /\ \A id \in DOMAIN promises :
       promises[id].state # "pending" /\ id \in DOMAIN promises'
         => promises'[id] = promises[id]
C2_CompletedExactlyOnce == []C2_Inv /\ [][C2_Step]_vars
\* A completed request whose send invoke has not returned: a send failure
\* can still arrive for it.
C2_Witness ==
  \E id \in IssuedIds :
    /\ id \notin DOMAIN pendingRequests
    /\ id \notin DOMAIN promises
    /\ id \in sends
    /\ done.reqId = id

IsResponse(m) == m.form = "object" /\ m.id # AbsentId /\ m.id # NullId
ResponseOutcome(m) ==
  IF m.hasError THEN [state |-> "rejected", value |-> <<"LSP error", m.errorMessage>>]
  ELSE [state |-> "resolved", value |-> JsValue(m.result)]

\* C3: a response completes the pending request whose id it carries, with
\* its own result or error, whatever other requests are pending; every other
\* pending entry and promise is untouched; and the caller of a query gets
\* the value of the request it awaits.
C3_Route(m) ==
  /\ promises'[m.id] = ResponseOutcome(m)
  /\ m.id \notin DOMAIN pendingRequests'
  /\ \A id \in DOMAIN pendingRequests \ {m.id} :
       /\ id \in DOMAIN pendingRequests'
       /\ pendingRequests'[id] = pendingRequests[id]
       /\ promises'[id] = promises[id]
C3_Deliver(c) ==
  /\ done'.reqId = calls[c].reqId
  /\ promises[calls[c].reqId].state = "resolved"
       => done'.result
            = QueryResolved(calls[c], promises[calls[c].reqId].value).result
C3_Step ==
  /\ pendingRequests' # pendingRequests =>
       \A m \in InboundMessages :
         IsResponse(m) /\ m.id \in DOMAIN pendingRequests /\ Message(m)
           => C3_Route(m)
  /\ calls' # calls =>
       \A c \in CallSlots : ResumeQuery(c) => C3_Deliver(c)
C3_RoutedById == [][C3_Step]_vars
\* A later request is already resolved while an earlier one still waits.
C3_Witness ==
  \E j, k \in DOMAIN promises :
    /\ j < k
    /\ promises[j].state = "pending"
    /\ promises[k].state = "resolved"
    /\ \E c, d \in CallSlots : calls[c].reqId = j /\ calls[d].reqId = k

\* C4: a timer is armed with the 30 000 ms delay and fires only after that
\* time; when it fires the caller's promise is rejected with the timeout
\* error naming the entry's method, the entry is removed, no request is
\* issued again, and a response for an id that is not pending changes nothing.
C4_Step ==
  /\ \A id \in DOMAIN timers' \ DOMAIN timers :
       timers'[id].remaining = REQUEST_TIMEOUT
  /\ \A id \in DOMAIN timers \ DOMAIN timers' : TimeoutFires(id) =>
       /\ timers[id].remaining = 0
       /\ promises'[id] = [state |-> "rejected",
             value |-> <<"LSP request timeout", pendingRequests[id].method>>]
       /\ id \notin DOMAIN pendingRequests'
       /\ messageId' = messageId
       /\ sent' = NoMessage
  /\ service' # service \/ calls' # calls =>
       \A m \in InboundMessages :
         IsResponse(m) /\ m.id \notin DOMAIN pendingRequests => ~Message(m)
C4_TimeoutRejects == [][C4_Step]_vars
\* A request was just rejected by its timer.
C4_Witness ==
  \E id \in DOMAIN promises :
    /\ promises[id].state = "rejected"
    /\ promises[id].value[1] = "LSP request timeout"
    /\ id \notin DOMAIN pendingRequests
\* C1: the session registry never holds two sessions with the same language
\* and rootPath, also while startServer calls for that pair overlap.
C1_OneSessionPerPair ==
  \A i, j \in DOMAIN servers :
    servers[i].language = servers[j].language
      /\ servers[i].rootPath = servers[j].rootPath => i = j

DocKey(message) == <<message.serverId, message.uri>>
Recorded(key) == IF HasServer(key[1]) THEN CurrentVersion(key[1], key[2]) ELSE 0
Versioned == {"textDocument/didOpen", "textDocument/didChange"}

\* C5 as stated: every open or change notification sent for a document of a
\* session carries a version higher than every version sent for it before.
C5_OriginalStep ==
  sent'.method \in Versioned => sent'.version > SentOf(DocKey(sent')).max
C5_VersionsNeverRepeat == [][C5_OriginalStep]_vars

\* C5 as amended: every change notification carries a version higher than
\* the open or change notification sent before it for the document since the
\* document was last closed, and every open notification carries version 1.
C5_Step ==
  /\ sent'.method = "textDocument/didChange" =>
       sent'.version > SentOf(DocKey(sent')).last
  /\ sent'.method = "textDocument/didOpen" => sent'.version = 1
C5_IncreaseUntilReopened == [][C5_Step]_vars
\* A change sent after the numbering restarted: versions rise again below
\* the highest version the document has had.
C5_Witness ==
  /\ sent.method = "textDocument/didChange"
  /\ sent.version >= 2
  /\ SentOf(DocKey(sent)).max > sent.version

\* C6: in a ready session an open records and sends version 1, a change
\* records and sends the recorded version plus one, so that an open followed
\* by n changes leaves n + 1, and a close leaves no entry, so that the next
\* open records 1 again.
C6_Inv ==
  /\ sent.method = "textDocument/didOpen" =>
       sent.version = 1 /\ Recorded(DocKey(sent)) = 1
  /\ sent.method = "textDocument/didChange" =>
       sent.version = Recorded(DocKey(sent))
  /\ sent.method = "textDocument/didClose" =>
       sent.uri \notin DOMAIN GetServer(sent.serverId).documentVersions
  /\ \A key \in DOMAIN docSent :
       Recorded(key) = docSent[key].changes
                         + (IF docSent[key].phase = "open" THEN 1 ELSE 0)
C6_Step ==
  sent'.method = "textDocument/didChange" =>
    /\ IsReady(sent'.serverId)
    /\ sent'.version = Recorded(DocKey(sent')) + 1
C7_ReadyAtReturn ==
  done.op = "startServer" /\ done.outcome = "returned" =>
    \E i \in DOMAIN servers :
      servers[i].serverId = done.returnedId /\ servers[i].isInitialized

\* C8: a startServer call made after an earlier call for the pair returned a
\* session that is still registered returns that same id, taking the reuse
\* path (no external start, no initialize request).
C8_SameIdOnRestart ==
  done.op = "startServer" /\ done.outcome = "returned"
    /\ done.prior # {} /\ done.prior \subseteq ServerIds =>
      /\ done.prior = {done.returnedId}
      /\ done.result = <<"serverId", "reused">>

\* C9: when startServer fails after the external start, no entry for that
\* session is left in the registry.
C9_NoEntryAfterFailedStart ==
  done.op = "startServer" /\ done.outcome = "threw" /\ done.serverId # NoServer
    => done.serverId \notin ServerIds
\* C10: every entry of the connection registry, in the file index and in
\* the (rootPath, language) index, names a session of the session registry.
C10_RegistryNamesLiveSessions ==
  /\ \A f \in DOMAIN connections : connections[f].serverId \in ServerIds
  /\ \A k \in DOMAIN serversByRoot : serversByRoot[k] \in ServerIds

\* The requests still pending that were sent to this session: each is
\* awaited by the call that sent it.
PendingOf(serverId) ==
  {calls[c].reqId : c \in {d \in CallSlots :
      /\ calls[d].serverId = serverId
      /\ calls[d].reqId \in DOMAIN pendingRequests}}

\* C11: when a stopServer call has invoked the external stop of a session,
\* no request sent to that session is pending any more.
C11_PendingRejectedBeforeStop ==
  \A c \in CallSlots :
    calls[c].op = "stopServer" /\ calls[c].pc = "stopInvoke"
      => PendingOf(calls[c].serverId) = {}

\* C12: a stopServer call for a known session that has completed, with or
\* without a failure on the way, has left no entry of the session in the
\* registry.
C12_StoppedSessionRemoved ==
  done.op = "stopServer" /\ done.result # <<"void", "unknown">>
    => done.serverId \notin ServerIds

\* C13: stopServer on an unknown session id sends nothing, invokes nothing
\* and changes nothing; and a stopServer call that completes when the
\* session is no longer registered, as the second of two calls for one
\* session does, has not failed.
C13_UnknownStep ==
  calls' # calls =>
    \A s \in ServerIdSpace \ ServerIds :
      StopServerCall(s) =>
        /\ sent' = NoMessage
        /\ service' = service
        /\ done'.outcome = "returned"
C13_SecondStop ==
  done.op = "stopServer" /\ done.serverId \notin ServerIds
    => done.outcome = "returned"
C13_SafeToStopTwice == []C13_SecondStop /\ [][C13_UnknownStep]_vars

\* C14: when cleanup() has completed, also after the stop of a session
\* failed, no request is pending, no request timer is armed and no caller
\* still waits for a request.
C14_CleanupEmptiesPending ==
  done.op = "cleanup" =>
    /\ pendingRequests = EmptyMap
    /\ timers = EmptyMap
    /\ \A id \in DOMAIN promises : promises[id].state # "pending"

\* C15: when the transport rejects a request that is still pending, that
\* step rejects the caller with the transport error, removes the pending
\* entry and cancels the timer; and no timer is armed for a request that is
\* no longer pending, so no timeout fires for it later.
C15_Step ==
  /\ \A id \in sends \ sends' :
       id \in DOMAIN pendingRequests /\ RequestSendFails(id) =>
         /\ promises'[id] = [state |-> "rejected",
                             value |-> <<"transport error", "send">>]
         /\ id \notin DOMAIN pendingRequests'
         /\ id \notin DOMAIN timers'
  /\ \A id \in 1..messageId :
       id \notin DOMAIN pendingRequests => id \notin DOMAIN timers'
C15_SendFailureRejects == [][C15_Step]_vars
\* A caller has just been rejected with the transport error.
C15_Witness ==
  \E id \in DOMAIN promises :
    /\ promises[id] = [state |-> "rejected", value |-> <<"transport error", "send">>]
    /\ id \notin DOMAIN pendingRequests
    /\ id \notin DOMAIN timers
    /\ id \notin sends

\* C16: the step in which the timer of one request fires removes that
\* request's pending entry and nothing else: every other pending entry, its
\* timer and its caller's promise, the session registry with each session's
\* isInitialized and documentVersions, and the subscription that delivers
\* the responses are as before, so the other requests are still completed
\* by their responses.
C16_Step ==
  \A id \in DOMAIN timers \ DOMAIN timers' : TimeoutFires(id) =>
    /\ DOMAIN pendingRequests' = DOMAIN pendingRequests \ {id}
    /\ DOMAIN timers' = DOMAIN timers \ {id}
    /\ \A other \in DOMAIN pendingRequests \ {id} :
         /\ pendingRequests'[other] = pendingRequests[other]
         /\ other \in DOMAIN timers => timers'[other] = timers[other]
         /\ promises'[other] = promises[other]
    /\ servers' = servers
    /\ listeners' = listeners
C16_TimeoutCancelsOne == [][C16_Step]_vars
\* One request has just timed out while another one is pending, with its
\* timer armed, on a session that is initialized and has a document open.
C16_Witness ==
  \E j, k \in DOMAIN promises :
    /\ promises[j].state = "rejected"
    /\ promises[j].value[1] = "LSP request timeout"
    /\ j \notin DOMAIN pendingRequests
    /\ k \in DOMAIN pendingRequests /\ k \in DOMAIN timers
    /\ \E i \in DOMAIN servers :
         servers[i].isInitialized /\ servers[i].documentVersions # EmptyMap

\* C17: messageId never decreases, also over cleanup() and a later init();
\* every id that enters the pending set, and every id a request message
\* carries, is the new messageId and is greater than every id issued
\* before, so no id is entered twice.
C17_Inv == DOMAIN pendingRequests \subseteq 1..messageId
C17_Step ==
  /\ messageId' >= messageId
  /\ \A id \in DOMAIN pendingRequests' \ DOMAIN pendingRequests :
       id = messageId' /\ id > messageId
  /\ sent'.id >= 1 => sent'.id = messageId' /\ sent'.id > messageId
C17_IdsNeverReused == []C17_Inv /\ [][C17_Step]_vars
\* A request issued after cleanup() and a second init() carries a new id.
C17_Witness ==
  /\ handles >= 2
  /\ initialized
  /\ messageId >= 3
  /\ messageId \in DOMAIN pendingRequests
  /\ sent.id = messageId

\* C18: openDocument and changeDocument on a session id that is not
\* registered, or registered and not yet initialized, throw the
\* not-initialized error, and closeDocument on such an id returns; in all
\* three cases nothing is handed to the transport and the registry, with
\* every documentVersions, is unchanged.
NotInitialized(serverId) ==
  \A i \in DOMAIN servers :
    servers[i].serverId = serverId => ~servers[i].isInitialized
C18_Refused(op, outcome, result) ==
  /\ done'.op = op
  /\ done'.outcome = outcome
  /\ done'.result = result
  /\ sent' = NoMessage
  /\ servers' = servers
C18_Step ==
  \/ done'.op \in {"openDocument", "changeDocument", "closeDocument"}
  \/ sent' # NoMessage
  \/ servers' # servers
  =>
    \A s \in ServerIdSpace, f \in Documents :
      NotInitialized(s) =>
        /\ OpenDocumentCall(s, f) =>
             C18_Refused("openDocument", "threw", <<"Server not initialized", "none">>)
        /\ ChangeDocumentCall(s, f) =>
             C18_Refused("changeDocument", "threw", <<"Server not initialized", "none">>)
        /\ CloseDocumentCall(s, f) =>
             C18_Refused("closeDocument", "returned", <<"void", "not initialized">>)
C18_NotInitializedRefused == [][C18_Step]_vars
\* An open was refused on a session that is registered and still in its
\* handshake.
C18_Witness ==
  /\ done.op = "openDocument"
  /\ done.outcome = "threw"
  /\ HasServer(done.serverId)
  /\ ~GetServer(done.serverId).isInitialized

HasEntry(srv, serverId, uri) ==
  \E i \in DOMAIN srv :
    srv[i].serverId = serverId /\ uri \in DOMAIN srv[i].documentVersions
Entries(srv) ==
  {key \in ServerIdSpace \X {FilePathToUri(f) : f \in FilePaths} :
     HasEntry(srv, key[1], key[2])}

\* C19 as stated: a session's documentVersions has an entry for a document
\* only while the document is open, that is after an openDocument that no
\* closeDocument has followed.
C19_EntryOnlyWhileOpen ==
  \A key \in Entries(servers) : SentOf(key).phase = "open"

\* C19 as amended: a session's documentVersions has an entry for a document
\* only if an open or a change notification was sent for it since it was
\* last closed, and only the step of an openDocument or changeDocument call
\* for that document creates an entry.
C19_Inv == \A key \in Entries(servers) : SentOf(key).last > 0
C19_Step ==
  \A key \in Entries(servers') \ Entries(servers) :
    sent'.method \in Versioned /\ DocKey(sent') = key
C19_EntryOnlyAfterOpenOrChange == []C19_Inv /\ [][C19_Step]_vars
\* An entry made by a change for a document that is not open.
C19_Witness ==
  \E key \in Entries(servers) :
    /\ SentOf(key).phase # "open"
    /\ sent.method = "textDocument/didChange"
    /\ DocKey(sent) = key

\* C20: when the transport rejects the notification of a document call, an
\* openDocument or changeDocument call throws to its caller and a
\* closeDocument call returns normally.
C20_Step ==
  calls' # calls =>
    \A c \in CallSlots : DocumentSendFails(c) =>
      /\ calls[c].op \in {"openDocument", "changeDocument"} => done'.outcome = "threw"
      /\ calls[c].op = "closeDocument" => done'.outcome = "returned"
C20_CloseIsBestEffort == [][C20_Step]_vars

\* C21: when lsp_check_server_available answers false, startServer goes on
\* to the status request only, completes by throwing to its caller whether
\* or not a download is possible, starts no server in the external layer,
\* does not go back to an earlier step, and leaves the registry as it was.
C21_Step ==
  calls' # calls =>
    \A c \in CallSlots :
      /\ calls[c].pc = "checkAvailable" /\ calls'[c].pc = "getStatus"
           => servers' = servers /\ backendNext' = backendNext
      /\ calls[c].pc = "getStatus" /\ calls'[c] # calls[c]
           => /\ calls'[c] = NoCall
              /\ done'.op = "startServer"
              /\ done'.outcome = "threw"
              /\ done'.returnedId = NoServer
              /\ servers' = servers
              /\ backendNext' = backendNext
              /\ returnedIds' = returnedIds
C21_UnavailableFails == [][C21_Step]_vars

C21_Witness ==
  /\ done.op = "startServer"
  /\ done.result = <<"not installed", "call downloadServer">>
  /\ Len(servers) = 1

\* C22: whatever the payload (unparsable text, a parsed primitive or array,
\* a response whose id is not pending, a notification without params) and
\* whichever subscribers throw, no exception leaves handleMessage, the
\* session registry with its document versions is unchanged, and the pending
\* set is unchanged or loses exactly the entry whose id the response carries.
C22_Step ==
  dispatched'.route # "none" =>
    /\ ~dispatched'.escaped
    /\ servers' = servers
    /\ \/ pendingRequests' = pendingRequests
       \/ /\ dispatched'.route = "response"
          /\ dispatched'.id \in DOMAIN pendingRequests
          /\ pendingRequests' = MapDelete(pendingRequests, dispatched'.id)
C22_InboundNeverThrows == [][C22_Step]_vars

\* A publishDiagnostics notification without params met a throwing
\* subscriber of each kind while a request was pending.
C22_Witness ==
  /\ dispatched.route = "notification"
  /\ dispatched.logged >= 3
  /\ pendingRequests # EmptyMap

\* C23: at most one subscription to 'lsp-message' is active in every state,
\* also when several startServer calls enter init() before listen() has
\* answered, so one subscription runs handleMessage on each event; and when
\* cleanup() has returned no subscription is active.
C23_SingleSubscription ==
  /\ Cardinality(listeners) <= 1
  /\ dispatched.route # "none" => dispatched.runs = 1
  /\ done.op = "cleanup" /\ done.outcome = "returned" => listeners = {}

\* The sessions the registry holds for a file's language and project: named
\* by a direct entry with that language and rootPath, or by the
\* (rootPath, language) index.
SessionsFor(filePath) ==
  {connections[i].serverId : i \in
     {j \in DOMAIN connections :
        /\ connections[j].language = GetLanguageIdForPath(filePath)
        /\ connections[j].rootPath = ProjectRoot(filePath)}}
  \cup
  ({GetConnectionByRoot(ProjectRoot(filePath),
                        GetLanguageIdForPath(filePath)).serverId} \ {NoServer})

\* C24: for a file without a direct entry, getLspDefinition and
\* getLspReferences send the request to a session the registry holds for the
\* file's language and project whenever it holds one, and otherwise return
\* null and send nothing.
C24_Step ==
  calls' # calls \/ done' # done =>
    /\ \A c \in CallSlots :
         /\ ~Active(c)
         /\ calls'[c].op \in LookupOps
         /\ ~HasConnection(calls'[c].filePath)
         => /\ sent'.method = QueryMethod(LookupQuery(calls'[c].op))
            /\ sent'.serverId \in SessionsFor(calls'[c].filePath)
    /\ /\ done'.op \in LookupOps
       /\ done'.reqId = NoRequest
       /\ ~HasConnection(done'.filePath)
       => SessionsFor(done'.filePath) = {} /\ sent' = NoMessage
C24_LookupBySessionOfProject == [][C24_Step]_vars

\* Every file and every (rootPath, language) pair the registry may hold.
AllFiles == FilePaths \cup HookFiles \cup LookupFiles
AllRoots == ProjectRoots \cup RegistryRoots \cup RootPaths
NamesSession(conns, byRoot, serverId) ==
  \/ \E i \in DOMAIN conns : conns[i].serverId = serverId
  \/ \E k \in DOMAIN byRoot : byRoot[k] = serverId

\* C25: when unregisterServer(s) has returned, no direct entry and no
\* (rootPath, language) entry names s, no entry was added, and every entry of
\* either index that named another session is as it was before the call.
C25_Step ==
  done'.op = "unregisterServer" =>
    LET s == done'.serverId IN
    /\ ~NamesSession(connections', serversByRoot', s)
    /\ \A f \in AllFiles :
         IF GetConnection(f).serverId = s
         THEN ConnectionsGet(connections', f) = NoConnection
         ELSE ConnectionsGet(connections', f) = GetConnection(f)
    /\ DOMAIN serversByRoot' = {k \in DOMAIN serversByRoot : serversByRoot[k] # s}
    /\ \A k \in DOMAIN serversByRoot' : serversByRoot'[k] = serversByRoot[k]
    /\ Len(connections') <= Len(connections)
C25_UnregisterServerRemovesOnlyItsSession == [][C25_Step]_vars

\* A session was unregistered and entries of both indexes remain.
C25_Witness ==
  /\ done.op = "unregisterServer"
  /\ connections # <<>>
  /\ Cardinality(DOMAIN serversByRoot) >= 2

\* C26: when register(f, s, L, R) has returned, getConnection(f) is
\* {s, L, R} and getConnectionByRoot(R, L) is session s, whatever the two
\* indexes held for f and for (R, L); getConnection of every other file and
\* getConnectionByRoot of every other pair answer as before.
C26_Step ==
  done'.op = "register" =>
    LET f == done'.filePath
        s == done'.serverId
        L == done'.language
        R == done'.rootPath
        conn == [serverId |-> s, language |-> L, rootPath |-> R] IN
    /\ ConnectionsGet(connections', f) = conn
    /\ ByRootGet(serversByRoot', R, L) = conn
    /\ \A g \in AllFiles \ {f} : ConnectionsGet(connections', g) = GetConnection(g)
    /\ \A r \in AllRoots, l \in Languages :
         <<r, l>> # <<R, L>> => ByRootGet(serversByRoot', r, l) = GetConnectionByRoot(r, l)
    /\ Len(connections') = IF HasConnection(f) THEN Len(connections)
                           ELSE Len(connections) + 1
    /\ DOMAIN serversByRoot' = DOMAIN serversByRoot \cup {RootKey(R, L)}
C26_RegisterUpsertsBothIndexes == [][C26_Step]_vars

\* A file was registered again with another session, language and root,
\* for a pair another session held, while the other file keeps its entry.
C26_Witness ==
  /\ done.op = "register"
  /\ Len(connections) = 2
  /\ Cardinality(DOMAIN serversByRoot) >= 3
  /\ GetConnection(done.filePath).serverId = done.serverId
  /\ \E i \in DOMAIN connections :
       /\ connections[i].filePath # done.filePath
       /\ connections[i].serverId # done.serverId
       /\ connections[i].language = done.language
       /\ connections[i].rootPath = done.rootPath

\* C27: unregister(f) removes the direct entry of f and nothing else: the
\* (rootPath, language) index and the direct entries of the other files are
\* as before, also when no other file of f's session has an entry.
C27_Step ==
  done'.op = "unregister" =>
    /\ serversByRoot' = serversByRoot
    /\ ~ConnectionsHas(connections', done'.filePath)
    /\ \A g \in AllFiles \ {done'.filePath} : ConnectionsGet(connections', g) = GetConnection(g)
    /\ Len(connections') = IF HasConnection(done'.filePath)
                           THEN Len(connections) - 1 ELSE Len(connections)
C27_UnregisterRemovesDirectEntryOnly == [][C27_Step]_vars

\* The last file was unregistered and its session is still in the index.
C27_Witness ==
  /\ done.op = "unregister"
  /\ connections = <<>>
  /\ serversByRoot # EmptyMap

\* The number of stored diagnostics of a severity, over all files.
StoredOf(severity) ==
  LET RECURSIVE Sum(_)
      Sum(files) ==
        IF files = {} THEN 0
        ELSE LET f == CHOOSE g \in files : TRUE
                 list == diagnosticsByFile[f]
             IN Cardinality({i \in DOMAIN list : list[i].severity = severity})
                + Sum(files \ {f})
  IN Sum(DOMAIN diagnosticsByFile)

\* C28: in every state reached by setDiagnostics, clearDiagnostics,
\* clearAllDiagnostics and changes of the visibility settings, in any order,
\* each aggregate count equals the number of stored diagnostics of its
\* severity over all files, and none is negative.
C28_AggregateEqualsRecount ==
  /\ diagnosticsCounts.errors = StoredOf("error")
  /\ diagnosticsCounts.warnings = StoredOf("warning")
  /\ diagnosticsCounts.info = StoredOf("info")
  /\ diagnosticsCounts.hints = StoredOf("hint")
  /\ diagnosticsCounts.errors >= 0 /\ diagnosticsCounts.warnings >= 0
  /\ diagnosticsCounts.info >= 0 /\ diagnosticsCounts.hints >= 0

\* Two files hold lists, one of them stored while errors and hints were
\* visible; both are hidden now, and the other file's list was just set.
C28_Witness ==
  /\ done.op = "setDiagnostics"
  /\ Cardinality(DOMAIN diagnosticsByFile) = 2
  /\ diagnosticsCounts.hints >= 1
  /\ diagnosticsCounts.errors >= 1
  /\ diagnosticsCounts.warnings >= 1
  /\ ~showHints /\ ~showErrors

\* Whether a severity name is visible under the settings of this state.
Visible(severity) ==
  \/ severity = "error" /\ showErrors
  \/ severity = "warning" /\ showWarnings
  \/ severity = "info" /\ showInfo
  \/ severity = "hint" /\ showHints

\* The severity names of a raw list, an absent severity being error, and of
\* the visible ones among them, in the order of the list.
SeverityNames(diagnostics) ==
  [i \in DOMAIN diagnostics |->
     CASE diagnostics[i].severity \in {NoSeverity, 1} -> "error"
       [] diagnostics[i].severity = 2 -> "warning"
       [] diagnostics[i].severity = 3 -> "info"
       [] diagnostics[i].severity = 4 -> "hint"]
VisibleNames(diagnostics) == SelectSeq(SeverityNames(diagnostics), Visible)
StoredNames(list) == [i \in DOMAIN list |-> list[i].severity]

\* C29: after setDiagnostics(uri, ds) the list getDiagnostics returns for
\* the file path of uri is made of exactly the diagnostics of ds whose
\* severity was visible under the settings at the call, in their order, an
\* absent severity taken as error, and of nothing else; the lists of the
\* other files are as before; and a file without an entry has the empty list.
C29_Step ==
  done'.op = "setDiagnostics" =>
    LET uri == done'.filePath
        ds == done'.diagnostics
        stored == StoredDiagnostics(diagnosticsByFile', UriToFilePath(uri)) IN
    /\ StoredNames(stored) = VisibleNames(ds)
    /\ \A i \in DOMAIN stored :
         /\ stored[i].id.filePath = UriToFilePath(uri)
         /\ stored[i].id.index + 1 \in DOMAIN ds
         /\ stored[i].message = ds[stored[i].id.index + 1].message
         /\ SeverityNames(ds)[stored[i].id.index + 1] = stored[i].severity
    /\ \A i, j \in DOMAIN stored : i < j => stored[i].id.index < stored[j].id.index
    /\ \A f \in StoreFiles \ {UriToFilePath(uri)} :
         StoredDiagnostics(diagnosticsByFile', f)
           = StoredDiagnostics(diagnosticsByFile, f)
C29_Inv ==
  \A f \in StoreFiles \cup FilePaths :
    f \notin DOMAIN diagnosticsByFile => GetDiagnostics(f) = <<>>
C29_SetReplacesWithVisible == []C29_Inv /\ [][C29_Step]_vars

\* A two-element list replaced the file's list and only its second element,
\* of absent severity, was visible; the other file holds a list.
C29_Witness ==
  /\ done.op = "setDiagnostics"
  /\ Cardinality(DOMAIN diagnosticsByFile) = 2
  /\ LET stored == GetDiagnostics(UriToFilePath(done.filePath)) IN
       /\ Len(stored) = 1
       /\ stored[1].id.index = 1
       /\ stored[1].severity = "error"
  /\ ~showWarnings

\* C30: clearDiagnostics on a file without an entry changes neither the
\* file map nor the aggregate; on a file with an entry it removes the entry,
\* lowers each aggregate count by the number of diagnostics of that severity
\* in the file's stored list, and leaves the lists of the other files as
\* they were.
C30_Step ==
  done'.op = "clearDiagnostics" =>
    LET f == UriToFilePath(done'.filePath)
        old == StoredDiagnostics(diagnosticsByFile, f)
        Had(severity) == Cardinality({i \in DOMAIN old : old[i].severity = severity})
    IN IF f \notin DOMAIN diagnosticsByFile
       THEN diagnosticsByFile' = diagnosticsByFile
            /\ diagnosticsCounts' = diagnosticsCounts
       ELSE /\ DOMAIN diagnosticsByFile' = DOMAIN diagnosticsByFile \ {f}
            /\ \A g \in DOMAIN diagnosticsByFile' :
                 diagnosticsByFile'[g] = diagnosticsByFile[g]
            /\ diagnosticsCounts'.errors = diagnosticsCounts.errors - Had("error")
            /\ diagnosticsCounts'.warnings = diagnosticsCounts.warnings - Had("warning")
            /\ diagnosticsCounts'.info = diagnosticsCounts.info - Had("info")
            /\ diagnosticsCounts'.hints = diagnosticsCounts.hints - Had("hint")
C30_ClearRemovesOneFile == [][C30_Step]_vars

\* A file was cleared and the other file's diagnostics are still counted.
C30_Witness ==
  /\ done.op = "clearDiagnostics"
  /\ Cardinality(DOMAIN diagnosticsByFile) = 1
  /\ diagnosticsCounts.errors >= 1
  /\ diagnosticsCounts.hints >= 1
\* C31: hover, definition and references return to their caller and never
\* throw; when the request was rejected (an error response, its timeout, a
\* send failure) the value returned is null.
C31_Step ==
  calls' # calls =>
    \A c \in CallSlots :
      calls[c].op \in QueryOps /\ ResumeQuery(c) =>
        /\ done'.op = calls[c].op
        /\ done'.outcome = "returned"
        /\ promises[calls[c].reqId].state = "rejected" => done'.result = Null
C31_QueriesNeverFail ==
  /\ [](done.op \in QueryOps => done.outcome = "returned")
  /\ [][C31_Step]_vars

\* One query has just returned null after its request was rejected, and
\* another one is still waiting.
C31_Witness ==
  /\ done.op \in QueryOps
  /\ done.result = Null
  /\ done.reqId \notin DOMAIN pendingRequests
  /\ done.reqId \notin sends
  /\ \E c \in CallSlots : calls[c].pc = "awaitQuery"

\* Whether a value is an array of these items, in this order.
IsArrayOf(value, items) ==
  /\ value \notin {Null, Undefined}
  /\ ResultValue(value[2]) = Array(items)

\* C32: definition() returns null for a null, an absent or an empty result;
\* a one-element array holding the location for a single location; and for
\* an array the array of the same length and order in which a location link
\* {targetUri, targetSelectionRange} has become {uri: targetUri, range:
\* targetSelectionRange} and a location is as it was.
C32_Step ==
  calls' # calls =>
    \A c \in CallSlots :
      /\ calls[c].op = "definition"
      /\ ResumeQuery(c)
      /\ promises[calls[c].reqId].state = "resolved"
      => LET result == promises[calls[c].reqId].value
             returned == done'.result
         IN IF result \in {Null, Undefined} \/ IsArrayOf(result, <<>>)
            THEN returned = Null
            ELSE LET given == ResultValue(result[2]) IN
                 IF ~given.isArray
                 THEN IsArrayOf(returned, <<given.items[1]>>)
                 ELSE IsArrayOf(returned,
                        [i \in DOMAIN given.items |->
                           IF given.items[i].targetUri # "undefined"
                           THEN [uri |-> given.items[i].targetUri,
                                 range |-> given.items[i].targetSelectionRange,
                                 targetUri |-> "undefined",
                                 targetSelectionRange |-> "undefined"]
                           ELSE given.items[i]])
C32_DefinitionNormalized == [][C32_Step]_vars

\* Whether a session is registered with isInitialized true.
IsInitializedIn(srv, serverId) ==
  \E i \in DOMAIN srv : srv[i].serverId = serverId /\ srv[i].isInitialized
Handshaking(c) ==
  calls[c].op = "startServer" /\ calls[c].pc \in {"awaitInitialize", "sendInitialized"}

\* C33: a session's isInitialized becomes true only in the step in which the
\* transport has taken the initialized notification of the startServer call
\* that started it; that notification is sent only once the call's
\* initialize request is resolved, which only a response carrying its id
\* does; and the request is sent when the session is registered, not yet
\* initialized. A startServer that throws after registering its session (an
\* error response, a timeout, a refused send of either message) leaves it
\* not initialized, and no other call ever works on that session.
C33_Step ==
  /\ \A s \in ServerIdSpace :
       IsInitializedIn(servers', s) /\ ~IsInitializedIn(servers, s) =>
         /\ \E c \in CallSlots :
              Handshaking(c) /\ calls[c].pc = "sendInitialized" /\ calls[c].serverId = s
         /\ done'.op = "startServer" /\ done'.serverId = s
         /\ done'.outcome = "returned"
  /\ calls' # calls =>
       \A c \in CallSlots :
         /\ calls'[c].pc = "sendInitialized" /\ calls[c].pc # "sendInitialized" =>
              /\ calls[c].pc = "awaitInitialize"
              /\ calls'[c].serverId = calls[c].serverId
              /\ promises[calls[c].reqId].state = "resolved"
              /\ sent'.method = "initialized" /\ sent'.serverId = calls[c].serverId
         /\ calls'[c].pc = "awaitInitialize" /\ calls[c].pc # "awaitInitialize" =>
              /\ sent'.method = "initialize" /\ sent'.id = calls'[c].reqId
              /\ sent'.serverId = calls'[c].serverId
              /\ ~HasServer(calls'[c].serverId)
              /\ ~IsInitializedIn(servers', calls'[c].serverId)
              /\ \A d \in CallSlots \ {c} :
                   Handshaking(d) => calls[d].serverId # calls'[c].serverId
  /\ \A c \in CallSlots :
       /\ Handshaking(c) /\ calls[c].pc = "awaitInitialize"
       /\ promises[calls[c].reqId].state = "pending"
       /\ promises'[calls[c].reqId].state = "resolved"
       => dispatched'.route = "response" /\ dispatched'.id = calls[c].reqId
  /\ done'.op = "startServer" /\ done'.outcome = "threw" /\ done'.serverId # NoServer
       => ~IsInitializedIn(servers', done'.serverId)
C33_ReadyOnlyAfterHandshake == [][C33_Step]_vars

\* The second session has just become initialized, after the first one was
\* started and stopped.
C33_Witness ==
  /\ done.op = "startServer"
  /\ done.result = <<"serverId", "started">>
  /\ done.serverId = 2
  /\ IsInitializedIn(servers, 2)

\* The parsed inbound objects, by what they carry.
HasId(m) == m.id # AbsentId /\ m.id # NullId
HasMethod(m) == m.method # "absent"
Parsed == {m \in InboundMessages : ParseError(m) = "none"}

\* C34: only an inbound message with a non-null id and no method name
\* completes a pending request; a message that carries a method name, also a
\* request of the server whose id equals a pending id, is handled as a
\* notification and leaves the pending set as it was.
C34_Step ==
  dispatched'.parsed =>
    /\ pendingRequests' # pendingRequests =>
         dispatched'.hasId /\ ~dispatched'.hasMethod
    /\ dispatched'.hasMethod =>
         /\ dispatched'.route = "notification"
         /\ pendingRequests' = pendingRequests
C34_OnlyResponsesComplete == [][C34_Step]_vars

\* C35: handleMessage handles a parsed message in exactly one way: with a
\* non-null id it goes to the pending-request table and to no subscriber;
\* without one and with a method name it is delivered to the subscribers and
\* the pending set, timers and promises stay; any other message is delivered
\* to nobody and changes nothing of the service.
C35_Step ==
  dispatched'.parsed =>
    IF dispatched'.hasId
    THEN /\ dispatched'.route = "response"
         /\ dispatched'.delivered = <<>>
         /\ \/ /\ dispatched'.id = NoRequest
               /\ UNCHANGED <<pendingRequests, timers, promises>>
            \/ /\ dispatched'.id \in DOMAIN pendingRequests
               /\ pendingRequests' = MapDelete(pendingRequests, dispatched'.id)
    ELSE IF dispatched'.hasMethod
    THEN /\ dispatched'.route = "notification"
         /\ Len(dispatched'.delivered) >= Len(notificationCallbacks)
         /\ UNCHANGED <<pendingRequests, timers, promises>>
    ELSE /\ dispatched'.route = "ignored"
         /\ dispatched'.delivered = <<>>
         /\ dispatched'.logged = 0
         /\ UNCHANGED <<service, calls, registry, subscribers, store>>
C35_OneOfThreeWays == [][C35_Step]_vars

\* A request of the server with the id of a pending request has just
\* completed that request, with no result.
C35_Witness ==
  /\ dispatched.route = "response"
  /\ dispatched.hasId /\ dispatched.hasMethod
  /\ dispatched.id # NoRequest
  /\ dispatched.id \in DOMAIN promises
  /\ promises[dispatched.id] = [state |-> "resolved", value |-> Undefined]

\* C36: a push notification is delivered to every notification subscriber,
\* in the order they subscribed, with its method and params, and then, when
\* its method is publishDiagnostics and it has params, to every diagnostics
\* subscriber, in order, with the uri and diagnostics of the params; for
\* another method no diagnostics subscriber is called; subscribers that
\* throw are called like the others and so are those after them.
C36_Step ==
  dispatched'.route = "notification" =>
    \A m \in Parsed :
      ~HasId(m) /\ HasMethod(m) /\ Message(m) =>
        LET delivered == dispatched'.delivered
            n == Len(notificationCallbacks)
            wanted == IF m.method = PUBLISH_DIAGNOSTICS /\ m.params # "absent"
                      THEN Len(diagnosticsCallbacks) ELSE 0
        IN /\ Len(delivered) = n + wanted
           /\ \A i \in 1..n :
                delivered[i] = [kind |-> "notification",
                                to |-> notificationCallbacks[i],
                                first |-> m.method, second |-> m.params]
           /\ \A i \in 1..wanted :
                delivered[n + i] = [kind |-> "diagnostics",
                                    to |-> diagnosticsCallbacks[i],
                                    first |-> ParamsUri(m.params),
                                    second |-> ParamsDiagnostics(m.params)]
C36_DeliveryOrder == [][C36_Step]_vars

\* A publishDiagnostics notification went to a throwing subscriber of each
\* kind and to the subscriber after it.
C36_Witness ==
  /\ dispatched.route = "notification"
  /\ Len(dispatched.delivered) = 4
  /\ dispatched.delivered[1].to = "badLog" /\ dispatched.delivered[2].to = "log"
  /\ dispatched.delivered[3].to = "badStore" /\ dispatched.delivered[4].to = "store"
  /\ dispatched.logged = 2

\* The session a pending request was sent to: that of the call awaiting it.
SessionOfRequest(id) ==
  LET c == CHOOSE d \in CallSlots :
             calls[d].pc \in AwaitRequestPcs /\ calls[d].reqId = id
  IN calls[c].serverId

\* C37: a pending request is completed only by a response that arrived
\* tagged with the session the request was sent to.
C37_Step ==
  dispatched'.route = "response" /\ dispatched'.id # NoRequest =>
    dispatched'.serverId = SessionOfRequest(dispatched'.id)
C37_CompletedOnOwnChannel == [][C37_Step]_vars

\* stopServer has sent the shutdown request for the session: a stopServer
\* call on it is past that point, or the session was started and is gone.
ShutdownSent(s) ==
  \/ \E c \in CallSlots :
       /\ calls[c].op = "stopServer" /\ calls[c].serverId = s
       /\ calls[c].pc \in {"awaitShutdown", "sendExit", "stopInvoke"}
  \/ s \in 1..backendNext /\ ~HasServer(s)

\* C38: once stopServer has sent the shutdown request for a session, the
\* only message handed to the transport for that session is the exit
\* notification: no document notification and no hover, definition or
\* references request, while the shutdown response is awaited or later.
SessionTraffic ==
  {"textDocument/didOpen", "textDocument/didChange", "textDocument/didClose",
   "textDocument/hover", "textDocument/definition", "textDocument/references"}
C38_Step ==
  sent'.serverId # NoServer /\ ShutdownSent(sent'.serverId) =>
    sent'.method \notin SessionTraffic
C38_QuietAfterShutdown == [][C38_Step]_vars

\* C39: when the transport rejects the notification of openDocument or
\* changeDocument, the version recorded for the document is the one that
\* was recorded before the call.
C39_Step ==
  /\ done'.op \in {"openDocument", "changeDocument"}
  /\ done'.outcome = "threw"
  /\ done'.result = <<"transport error", "send">>
  => RecordedVersion(servers', done'.serverId, FilePathToUri(done'.filePath))
       = done'.versionBefore
C39_FailedSendKeepsVersion == [][C39_Step]_vars

\* ------------------------------------------------------------- termination
\* The service's life as its owner drives it: a session starts, one query
\* and one cleanup() at a time are in flight besides it, a request in flight
\* is answered by a result or an error or not at all, and the transport may
\* refuse it. sendRequest attaches only a catch to invoke, so an invoke that
\* resolves is not told apart from one that has not settled yet.
LiveAnswers ==
  {m \in Responses : m.hasError \/ m.result = "r1"}
LiveSteps ==
  \/ \E m \in LiveAnswers : m.id \in DOMAIN pendingRequests /\ Message(m)
  \/ \E id \in 1..MaxId : TimeoutFires(id)
  \/ \E id \in 1..MaxId : RequestSendFails(id)
  \/ Tick
OneQuery ==
  /\ \A c \in CallSlots : calls[c].op # "hover"
  /\ \E s \in ServerIds : QueryCall("hover", s)
OneCleanup ==
  /\ \A c \in CallSlots : calls[c].op # "cleanup"
  /\ CleanupCall
TeardownSteps ==
  \/ OneQuery
  \/ \E c \in CallSlots : ResumeQuery(c)
  \/ OneCleanup
  \/ \E c \in CallSlots : ResumeShutdown(c)
  \/ \E c \in CallSlots, ok \in BOOLEAN : ExitSendSettles(c, ok)
  \/ \E c \in CallSlots : StopInvokeFails(c)
  \/ \E c \in CallSlots : StopInvokeReturns(c)
NextLive == OneStartSteps \/ TeardownSteps \/ LiveSteps

\* The scheduling the runtime guarantees: time passes, a timer whose delay
\* has passed runs its callback, and the continuation of an await runs once
\* its promise is settled. Nothing is assumed of the server or the transport.
Resume(c) == ResumeInitialize(c) \/ ResumeQuery(c) \/ ResumeShutdown(c)
Fairness ==
  /\ WF_vars(Tick)
  /\ \A id \in 1..MaxId : WF_vars(TimeoutFires(id))
  /\ WF_vars(\E c \in CallSlots : Resume(c))
SpecLive == Init /\ [][NextLive]_vars /\ Fairness

Waiting(id) == id \in DOMAIN promises /\ promises[id].state = "pending"

\* C40: every request sent through sendRequest eventually completes, its
\* promise resolved or rejected, and every caller awaiting a request
\* (startServer its handshake, stopServer its shutdown, a query its answer)
\* eventually goes on, given that armed timers fire.
C40_EveryRequestCompletes ==
  /\ \A id \in 1..MaxId : Waiting(id) ~> ~Waiting(id)
  /\ \A c \in CallSlots :
       (calls[c].pc \in AwaitRequestPcs) ~> (calls[c].pc \notin AwaitRequestPcs)
\* A request nobody answered was rejected by its timer and its caller is
\* about to go on, while another request still waits.
C40_Witness ==
  \E c \in CallSlots, id \in 1..MaxId :
    /\ calls[c].pc \in AwaitRequestPcs /\ calls[c].reqId = id
    /\ id \in DOMAIN promises /\ promises[id].state = "rejected"
    /\ promises[id].value[1] = "LSP request timeout"
    /\ id \notin DOMAIN pendingRequests
    /\ \E other \in 1..MaxId : Waiting(other)
====
